---- MODULE Spec2Model ----
(***************************************************************************)
(* A model of the maiko actor runtime: the broker (topic routing, overflow *)
(* policies), the per-actor controller loop and the supervisor (actor      *)
(* registration, start, join, stop).                                       *)
(***************************************************************************)
EXTENDS Integers, Sequences, FiniteSets, TLC

\* ------------------------------------------------------------------ bounds
MaxActors == 2            \* add_actor calls made by the driving program
MaxEvents == 3            \* envelopes emitted by user code
channel_size == 2         \* Config.channel_size used for this run
max_events_per_tick == 2  \* largest Config.max_events_per_tick of a run
MaxSteps == 3             \* step() calls one controller makes
MaxMonitors == 2          \* monitors registered at the same time
MaxAdds == 3              \* AddMonitor commands of a bounded run
MaxObs == 3               \* observations handed to the monitoring sink
monitoring_channel_size == 2  \* capacity of the dispatcher's channel
MaxRecords == 3           \* entries the test harness has recorded
MaxChainIds == 3          \* event ids that occur in recorded entries
MaxTree == 4              \* events of a recorded correlation tree
MaxSent == 7              \* envelopes emitted in a run with a blocked broker
MaxCalls == 4             \* callbacks made on an ActorMonitor
MaxTestEvents == 4        \* TestEvents sent to an EventCollector

\* pub type MonitorId = u8
MonitorIdBits == 8
MonitorIds == 0..(2 ^ MonitorIdBits - 1)

Names == {"a", "b"}
TopicSet == {"Data", "Command", "Telemetry"}
Events == {"Start", "Data", "BytesSent"}

VARIABLES
    sup,             \* position of the task that owns the Supervisor
    started,         \* start() has returned
    viaJoin,         \* the running stop() was called by join()
    regResult,       \* result of the last add_actor / add_subscriber call
    lastId,          \* ActorId of the last add_actor / add_subscriber call
    stopResult,      \* result stop() returned
    joinResult,      \* result join() returned
    joinFirst,       \* the result the first join_next of join() yielded
    monCancelled,    \* MonitorRegistry.cancel_token
    brokerCancelled, \* Supervisor.broker_cancel_token
    cancelled,       \* Supervisor.cancel_token (the controllers' token)
    brokerLock,      \* owner of Supervisor.broker (the tokio Mutex)
    brk,             \* position of the broker task
    subscribers,     \* Broker.subscribers
    mailbox,         \* per actor: the channel made in register_actor
    inbound,         \* the channel made in Supervisor::new
    batch,           \* the events vector Broker::run is iterating
    blocked,         \* receivers of the deferred (Block) sends of send_event
    to_be_closed,    \* receivers marked by the Fail policy in send_event
    ctx,             \* per actor: the ActorId of its Context
    ctl,             \* position of each controller task
    cnt,             \* the cnt counter of the controller's mailbox branch
    pending,         \* envelope a Context::send is waiting to enqueue
    handled,         \* per actor: envelopes whose handle_envelope has started
    completed,       \* JoinSet: finished tasks not yet joined, oldest first
    tasksLeft,       \* JoinSet: tasks not yet joined
    nextPtr,         \* next Arc<str> allocation
    nextId,          \* next envelope id
    accepted,        \* the envelopes the inbound channel has accepted
    routed,          \* ids of the envelopes send_event has iterated
    tick_limit,      \* Config.max_events_per_tick of this run
    alive,           \* per actor: Context.alive
    step_ft,         \* per actor: the step future of ActorHandler::run
    hist,            \* per actor: the calls made on the actor so far
    monitors,        \* MonitorDispatcher.monitors: id -> MonitorEntry
    last_id,         \* MonitorDispatcher.last_id
    is_active,       \* the AtomicBool shared by dispatcher, registry, sink
    monChan,         \* the command channel: observations passed to the sink
    dispatcher,      \* position of the dispatcher task
    lastCmd,         \* the command the dispatcher processed last
    obsCount,        \* observations handed to MonitoringSink::send so far
    records,         \* Harness.records: the entries recorded so far
    chain,           \* the EventChain built last by Harness::chain
    shared_state,    \* SharedState.actors: the status of each entry
    running,         \* per actor: what its controller is doing (introspection)
    harness,         \* Harness: snapshot, receiver position, call state
    actor_monitor,   \* ActorMonitorInner: active, stopped, overflow_counts
    callbacks,       \* the Monitor callbacks made on the ActorMonitor
    collector,       \* the locals of EventCollector::run
    test_events      \* EventCollector.receiver: TestEvents not yet received

vars == << sup, started, viaJoin, regResult, lastId, stopResult, joinResult,
           joinFirst, monCancelled, brokerCancelled, cancelled, brokerLock,
           brk, subscribers, mailbox, inbound, batch, blocked, to_be_closed,
           ctx, ctl, cnt, pending, handled, completed, tasksLeft, nextPtr,
           nextId, accepted, routed, tick_limit, alive, step_ft, hist,
           monitors, last_id, is_active, monChan, dispatcher, lastCmd,
           obsCount, records, chain, shared_state, running, harness,
           actor_monitor, callbacks, collector, test_events >>

supVars == << sup, started, viaJoin, regResult, lastId, stopResult,
              joinResult, joinFirst, monCancelled, brokerCancelled, cancelled,
              nextPtr, tasksLeft >>
brokerVars == << brk, brokerLock, subscribers, batch, blocked, to_be_closed,
                 routed >>
monVars == << monitors, last_id, is_active, monChan, dispatcher, lastCmd,
             obsCount >>
toolVars == << shared_state, running, harness, actor_monitor, callbacks,
              collector, test_events >>
testVars == << records, chain, toolVars >>
cfgVars == << tick_limit, monVars, testVars >>
stepVars == << cfgVars, alive, step_ft, hist >>
ctlVars == << ctx, ctl, cnt, pending, handled, stepVars >>
\* the runtime outside the monitoring module
appVars_but_tools == << supVars, brokerVars, mailbox, inbound, completed,
                        nextId, accepted, ctx, ctl, cnt, pending, handled,
                        tick_limit, alive, step_ft, hist, records, chain >>
\* everything outside the monitoring module
appVars == << supVars, brokerVars, mailbox, inbound, completed, nextId,
              accepted, ctx, ctl, cnt, pending, handled, tick_limit, alive,
              step_ft, hist, testVars >>

Ptrs == 1..MaxActors
BrokerTask == 0

\* ---------------------------------------------------------------- values
NoId == [ptr |-> 0, name |-> ""]
NoEnv == [id |-> 0, sender |-> NoId, event |-> "", origin |-> ""]
NoRes == <<"none", 0>>
NoTask == [task |-> -1, res |-> NoRes]
NoChain == [root_id |-> 0, records |-> << >>, chain_ids |-> {},
            children_map |-> << >>]
NoCmd == [cmd |-> "none", id |-> -1, seq |-> 0, panicked |-> {}]
\* Harness::new: empty snapshot, nothing taken from the receiver; startAt
\* is the number of observations made before the last start_recording
NoHarness == [snapshot |-> << >>, pulled |-> 0, state |-> "new",
              startAt |-> 0]
\* ActorMonitor::new
ActorMonitor_new == [active |-> {}, stopped |-> {}, overflow_counts |-> << >>]
\* the locals of EventCollector::run before its loop; answered and lost
\* hold the Flush requests whose oneshot was answered or dropped, log the
\* kinds of the TestEvents received so far
EventCollector_new == [pc |-> "recv", is_alive |-> TRUE, is_idle |-> TRUE,
                       recording |-> FALSE, responder |-> 0,
                       should_stop |-> FALSE, events |-> << >>,
                       answered |-> {}, lost |-> {}, log |-> << >>]
Ok == <<"Ok", 0>>
Err(task) == <<"Err", task>>

\* the elements of a sequence
Range(q) == {q[k] : k \in 1..Len(q)}

\* enum StepAction (Yield is handled as Continue is)
StepActions == {"Continue", "AwaitEvent", "Backoff", "Never"}

\* no call made yet on an actor
NoCalls == [on_start |-> 0, on_shutdown |-> 0, on_error |-> 0, step |-> 0,
            last |-> "none", since |-> FALSE]

\* ActorId::new over a fresh Arc<str>
ActorId_new(ptr, name) == [ptr |-> ptr, name |-> name]

\* impl PartialEq for ActorId
ActorId_eq(a, b) == a.ptr = b.ptr

All == [kind |-> "All", set |-> {}]
None == [kind |-> "None", set |-> {}]
Topics(S) == [kind |-> "Topics", set |-> S]
Subscriptions == {All, None} \cup {Topics(S) : S \in SUBSET TopicSet}

\* contains with the explicit topic set ignored
contains_any(sub, topic) ==
    CASE sub.kind = "All" -> TRUE
      [] sub.kind = "Topics" -> TRUE
      [] sub.kind = "None" -> FALSE

\* Subscription::contains
contains(sub, topic) ==
    CASE sub.kind = "All" -> TRUE
      [] sub.kind = "Topics" -> topic \in sub.set
      [] sub.kind = "None" -> FALSE

\* Topic::from_event of the backpressure example
from_event(event) ==
    CASE event = "Start" -> "Command"
      [] event = "Data" -> "Data"
      [] event = "Done" -> "Data"
      [] event = "BytesSent" -> "Telemetry"

\* a policy table in which Telemetry fails instead of dropping
overflow_policy_telemetry_fail(topic) ==
    CASE topic = "Data" -> "Block"
      [] topic = "Command" -> "Fail"
      [] topic = "Telemetry" -> "Fail"

\* a policy table in which Data drops instead of blocking
overflow_policy_data_drop(topic) ==
    CASE topic = "Data" -> "Drop"
      [] topic = "Command" -> "Fail"
      [] topic = "Telemetry" -> "Drop"

\* Topic::overflow_policy of the backpressure example
overflow_policy(topic) ==
    CASE topic = "Data" -> "Block"
      [] topic = "Command" -> "Fail"
      [] topic = "Telemetry" -> "Drop"

\* Subscriber::new
Subscriber_new(actor_id, topics) == [actor_id |-> actor_id, topics |-> topics]

\* Subscriber::is_closed: the receiver lives in the controller task
is_closed(s) == ctl[s.actor_id.ptr] = "done"

\* Envelope::new
Envelope_new(event, actor_id, origin) ==
    [id |-> nextId, sender |-> actor_id, event |-> event, origin |-> origin]

\* ------------------------------------------------------------------ Init
InitAt(limit) ==
    /\ tick_limit = limit
    /\ monitors = << >>
    /\ last_id = 0
    /\ is_active = FALSE
    /\ monChan = << >>
    /\ dispatcher = "run"
    /\ lastCmd = NoCmd
    /\ obsCount = 0
    /\ records = << >>
    /\ chain = NoChain
    /\ shared_state = [p \in Ptrs |-> "absent"]
    /\ running = [p \in Ptrs |-> "idle"]
    /\ harness = NoHarness
    /\ actor_monitor = ActorMonitor_new
    /\ callbacks = << >>
    /\ collector = EventCollector_new
    /\ test_events = << >>
    /\ alive = [p \in Ptrs |-> TRUE]
    /\ step_ft = [p \in Ptrs |-> "idle"]
    /\ hist = [p \in Ptrs |-> NoCalls]
    /\ sup = "idle"
    /\ started = FALSE
    /\ viaJoin = FALSE
    /\ regResult = "none"
    /\ lastId = NoId
    /\ stopResult = NoRes
    /\ joinResult = NoRes
    /\ joinFirst = NoTask
    /\ monCancelled = FALSE
    /\ brokerCancelled = FALSE
    /\ cancelled = FALSE
    /\ brokerLock = "free"
    /\ brk = "unspawned"
    /\ subscribers = << >>
    /\ mailbox = [p \in Ptrs |-> << >>]
    /\ inbound = << >>
    /\ batch = << >>
    /\ blocked = {}
    /\ to_be_closed = {}
    /\ ctx = [p \in Ptrs |-> NoId]
    /\ ctl = [p \in Ptrs |-> "none"]
    /\ cnt = [p \in Ptrs |-> 0]
    /\ pending = [p \in Ptrs |-> NoEnv]
    /\ handled = [p \in Ptrs |-> << >>]
    /\ completed = << >>
    /\ tasksLeft = 0
    /\ nextPtr = 1
    /\ nextId = 1
    /\ accepted = {}
    /\ routed = {}

\* Supervisor::new with the configuration of this run
Init == InitAt(max_events_per_tick)

\* ---------------------------------------------------------- registration
\* add_subscriber without the contains check
add_subscriber_unchecked(subs, subscriber) ==
    [ok |-> TRUE, subs |-> Append(subs, subscriber)]

\* Broker::add_subscriber
add_subscriber(subs, subscriber) ==
    IF \E i \in 1..Len(subs) : ActorId_eq(subs[i].actor_id, subscriber.actor_id)
    THEN [ok |-> FALSE, subs |-> subs]
    ELSE [ok |-> TRUE, subs |-> Append(subs, subscriber)]

\* Supervisor::add_actor: create_context, then register_actor
register_actor(name, topics) ==
    /\ sup \in {"idle", "returned"}
    /\ nextPtr <= MaxActors
    /\ LET actor_id == ActorId_new(nextPtr, name)
           r == add_subscriber(subscribers, Subscriber_new(actor_id, topics))
       IN  /\ lastId' = actor_id
           /\ nextPtr' = nextPtr + 1
           /\ IF brokerLock # "free"
              THEN /\ regResult' = "BrokerAlreadyStarted"
                   /\ UNCHANGED << subscribers, ctx, ctl, tasksLeft >>
              ELSE IF ~r.ok
              THEN /\ regResult' = "SubscriberAlreadyExists"
                   /\ UNCHANGED << subscribers, ctx, ctl, tasksLeft >>
              ELSE /\ regResult' = "Ok"
                   /\ subscribers' = r.subs
                   /\ ctx' = [ctx EXCEPT ![actor_id.ptr] = actor_id]
                   /\ ctl' = [ctl EXCEPT ![actor_id.ptr] = "gated"]
                   /\ tasksLeft' = tasksLeft + 1
    /\ UNCHANGED << sup, started, viaJoin, stopResult, joinResult, joinFirst,
                    monCancelled, brokerCancelled, cancelled, brokerLock, brk,
                    mailbox, inbound, batch, blocked, to_be_closed, cnt,
                    pending, handled, completed, nextId, accepted, routed,
                    stepVars >>

\* Broker::add_subscriber called with a clone of a registered ActorId, as
\* tests::test_add_subscriber does
add_subscriber_clone(i, topics) ==
    /\ sup = "idle"
    /\ ~started
    /\ i \in 1..Len(subscribers)
    /\ LET r == add_subscriber(subscribers,
                               Subscriber_new(subscribers[i].actor_id, topics))
       IN  /\ subscribers' = r.subs
           /\ regResult' = IF r.ok THEN "Ok" ELSE "SubscriberAlreadyExists"
           /\ lastId' = subscribers[i].actor_id
    /\ UNCHANGED << sup, started, viaJoin, stopResult, joinResult,
                    joinFirst, monCancelled, brokerCancelled, cancelled,
                    brokerLock, brk, mailbox, inbound, batch, blocked,
                    to_be_closed, ctlVars, completed, tasksLeft, nextPtr,
                    nextId, accepted, routed >>

\* Supervisor::start
start ==
    /\ sup = "idle"
    /\ ~started
    /\ started' = TRUE
    /\ brk' = "spawned"
    /\ tasksLeft' = tasksLeft + 1
    /\ ctl' = [p \in Ptrs |-> IF ctl[p] = "gated" THEN "on_start" ELSE ctl[p]]
    /\ UNCHANGED << sup, viaJoin, regResult, lastId, stopResult, joinResult,
                    joinFirst, monCancelled, brokerCancelled, cancelled,
                    brokerLock, subscribers, mailbox, inbound, batch, blocked,
                    to_be_closed, ctx, cnt, pending, handled, completed,
                    nextPtr, nextId, accepted, routed, stepVars >>

\* Supervisor.supervisor_id, made in Supervisor::new
supervisor_id == ActorId_new(MaxActors + 1, "supervisor")

\* Supervisor::send: the event enters the inbound channel once it has room;
\* max bounds the envelopes of a run
Supervisor_send_upto(event, max) ==
    /\ sup = "idle"
    /\ nextId <= max
    /\ Len(inbound) < channel_size
    /\ brk # "done"
    /\ LET e == Envelope_new(event, supervisor_id, "supervisor")
       IN  /\ inbound' = Append(inbound, e)
           /\ accepted' = accepted \cup {e}
    /\ nextId' = nextId + 1
    /\ UNCHANGED << supVars, brokerVars, mailbox, ctlVars, completed >>

\* Supervisor::send in a run of at most MaxEvents envelopes
Supervisor_send(event) == Supervisor_send_upto(event, MaxEvents)

\* --------------------------------------------------- testing: EventChain
ChainIds == 1..MaxChainIds
Labels == {"Start", "Process", "Complete"}

\* EventEntry::new over an envelope with the given id, correlation id (0 for
\* None), label and sender
EventEntry_new(id, correlation, label, sender, receiver) ==
    [id |-> id, correlation |-> correlation, label |-> label,
     sender |-> sender, receiver |-> receiver]

\* the orders a HashMap with key set S can be iterated in
Orders(S) ==
    {f \in [1..Cardinality(S) -> S] : \A i, j \in 1..Cardinality(S) :
                                          f[i] = f[j] => i = j}

\* event_correlations of EventChain::new: entry(id).or_insert(correlation)
event_correlations(recs) ==
    [id \in {recs[k].id : k \in 1..Len(recs)} |->
       recs[CHOOSE k \in 1..Len(recs) :
              /\ recs[k].id = id
              /\ \A j \in 1..(k - 1) : recs[j].id # id].correlation]

\* the scan of EventChain::new cut short after its first hit
found_first(corr, ids, current, ord) ==
    LET hit(id) == corr[id] = current /\ id \notin ids
        hits == SelectSeq(ord, hit)
    IN  IF hits = << >> THEN hits ELSE << Head(hits) >>

\* one pass of the for loop of EventChain::new over event_correlations, in
\* the map's iteration order: the ids it inserts for current_id
found(corr, ids, current, ord) ==
    LET hit(id) == corr[id] = current /\ id \notin ids
    IN  SelectSeq(ord, hit)

\* the while loop of EventChain::new
RECURSIVE bfs(_, _, _, _, _)
bfs(queue, ids, cm, corr, ord) ==
    IF queue = << >>
    THEN [chain_ids |-> ids, children_map |-> cm]
    ELSE LET current == queue[Len(queue)]
             rest == SubSeq(queue, 1, Len(queue) - 1)
             new == found(corr, ids, current, ord)
         IN  bfs(rest \o new, ids \cup Range(new),
                 IF new = << >> THEN cm
                 ELSE [k \in DOMAIN cm \cup {current} |->
                         IF k = current THEN new ELSE cm[k]],
                 corr, ord)

\* EventChain::new; ord is the iteration order of event_correlations
EventChain_new(recs, root_id, ord) ==
    LET r == bfs(<< root_id >>, {root_id}, << >>, event_correlations(recs),
                 ord)
    IN  [root_id |-> root_id, records |-> recs, chain_ids |-> r.chain_ids,
         children_map |-> r.children_map]

\* EventChain::chain_entries
chain_entries(c) ==
    LET member(e) == e.id \in c.chain_ids IN SelectSeq(c.records, member)

\* EventMatcher::label and EventMatcher::id
EventMatcher_label(name) == [kind |-> "label", label |-> name, id |-> 0]
EventMatcher_id(id) == [kind |-> "id", label |-> "", id |-> id]

\* EventMatcher::matches
matches(m, entry) ==
    IF m.kind = "label" THEN entry.label = m.label ELSE entry.id = m.id

\* the loop of EventChain::diverges_after over the entries es
RECURSIVE diverges_loop(_, _, _)
diverges_loop(c, m, es) ==
    IF es = << >> THEN FALSE
    ELSE IF matches(m, Head(es)) /\ Head(es).id \in DOMAIN c.children_map
    THEN Len(c.children_map[Head(es).id]) > 1
    ELSE diverges_loop(c, m, Tail(es))

\* EventChain::diverges_after
diverges_after(c, m) == diverges_loop(c, m, chain_entries(c))

\* the loop of EventChain::branches_after over the entries es
RECURSIVE branches_loop(_, _, _)
branches_loop(c, m, es) ==
    IF es = << >> THEN 0
    ELSE IF matches(m, Head(es))
    THEN IF Head(es).id \in DOMAIN c.children_map
         THEN Len(c.children_map[Head(es).id]) ELSE 0
    ELSE branches_loop(c, m, Tail(es))

\* EventChain::branches_after
branches_after(c, m) == branches_loop(c, m, chain_entries(c))

\* EventChain::root_sender, << >> for None
root_sender(c) ==
    LET root(e) == e.id = c.root_id
        es == SelectSeq(c.records, root)
    IN  IF es = << >> THEN << >> ELSE << Head(es).sender >>

\* the while loop of EventChain::ordered_entries
RECURSIVE ordered_loop(_, _, _, _)
ordered_loop(c, queue, visited, result) ==
    IF queue = << >> THEN result
    ELSE LET id == queue[Len(queue)]
             rest == SubSeq(queue, 1, Len(queue) - 1)
             same(e) == e.id = id
         IN  IF id \in visited
             THEN ordered_loop(c, rest, visited, result)
             ELSE ordered_loop(c,
                      IF id \in DOMAIN c.children_map
                      THEN rest \o c.children_map[id] ELSE rest,
                      visited \cup {id},
                      result \o SelectSeq(chain_entries(c), same))

\* EventChain::ordered_entries
ordered_entries(c) == ordered_loop(c, << c.root_id >>, {}, << >>)

\* seen.insert(actor) followed by result.push(actor) in ActorFlow::ordered
RECURSIVE push_unseen(_, _)
push_unseen(result, actors) ==
    IF actors = << >> THEN result
    ELSE push_unseen(
             IF \E k \in 1..Len(result) : ActorId_eq(result[k], Head(actors))
             THEN result ELSE Append(result, Head(actors)),
             Tail(actors))

\* ActorFlow::ordered
ordered(c) ==
    LET es == ordered_entries(c)
    IN  push_unseen(root_sender(c), [k \in 1..Len(es) |-> es[k].receiver])

\* ActorFlow::exactly
exactly(c, actors) ==
    LET o == ordered(c)
    IN  /\ Len(o) = Len(actors)
        /\ \A k \in 1..Len(o) : ActorId_eq(o[k], actors[k])

\* the actors of the recorded scenarios
alpha == ActorId_new(1, "alpha")
beta == ActorId_new(2, "beta")
gamma == ActorId_new(3, "gamma")
FlowActors == {alpha, beta, gamma}

\* the collector appends one entry to the records while fewer than max are
\* recorded; all entries of one event id share one envelope
collect_upto(entry, max) ==
    /\ chain = NoChain
    /\ Len(records) < max
    /\ \A k \in 1..Len(records) :
          records[k].id = entry.id
              => /\ records[k].correlation = entry.correlation
                 /\ records[k].label = entry.label
                 /\ records[k].sender = entry.sender
    /\ records' = Append(records, entry)
    /\ UNCHANGED << chain, toolVars, monVars, tick_limit, supVars, brokerVars, mailbox,
                    inbound, completed, nextId, accepted, ctx, ctl, cnt,
                    pending, handled, alive, step_ft, hist >>

\* the collector while at most MaxRecords entries are recorded
collect(entry) == collect_upto(entry, MaxRecords)

\* Harness::chain(id): EventChain::new over a clone of the records
Harness_chain(root_id, ord) ==
    /\ records # << >>
    /\ chain' = EventChain_new(records, root_id, ord)
    /\ UNCHANGED << records, toolVars, monVars, tick_limit, supVars, brokerVars,
                    mailbox, inbound, completed, nextId, accepted, ctx, ctl,
                    cnt, pending, handled, alive, step_ft, hist >>

\* ------------------------------------------------------------- monitoring
\* enum MonitoringEvent, the variants the broker produces and one a
\* controller produces
ObsKinds == {"EventDispatched", "Overflow", "EventHandled"}

\* a MonitoringEvent about envelope id env and receiver actor, with the
\* OverflowPolicy an Overflow carries; seq counts the calls of
\* MonitoringSink::send
MonitoringEvent(kind, env, actor, policy, seq) ==
    [kind |-> kind, env |-> env, actor |-> actor, policy |-> policy,
     seq |-> seq]

\* the policy argument of record_overflow, "None" for the other variants
PolicyOf(kind, e) ==
    IF kind = "Overflow" THEN overflow_policy(from_event(e.event)) ELSE "None"

\* MonitoringSink::is_active
MonitoringSink_is_active == is_active

\* MonitoringSink::send: try_send of DispatchEvent(event), dropped when the
\* channel is full
MonitoringSink_send(chan, event) ==
    IF Len(chan) < monitoring_channel_size THEN Append(chan, event) ELSE chan

\* Broker::record_event_dispatched and Broker::record_overflow written
\* without the is_recording test
record_ungated(is_recording, obs, kind, e, actor) ==
    Append(obs, MonitoringEvent(kind, e.id, actor, PolicyOf(kind, e), 0))

\* Broker::record_event_dispatched and Broker::record_overflow: obs is the
\* list of events handed to the sink during one send_event
record(is_recording, obs, kind, e, actor) ==
    IF is_recording
    THEN Append(obs, MonitoringEvent(kind, e.id, actor, PolicyOf(kind, e), 0))
    ELSE obs

\* the calls of MonitoringSink::send one send_event makes, in order
RECURSIVE send_all(_, _, _)
send_all(chan, obs, n) ==
    IF obs = << >> THEN chan
    ELSE send_all(MonitoringSink_send(chan, [Head(obs) EXCEPT !.seq = n + 1]),
                  Tail(obs), n + 1)

\* MonitorEntry::new
MonitorEntry_new(faulty) ==
    [paused |-> FALSE, faulty |-> faulty, calls |-> << >>]

\* HashMap::insert on MonitorDispatcher.monitors
insert(ms, id, entry) ==
    [k \in DOMAIN ms \cup {id} |-> IF k = id THEN entry ELSE ms[k]]

\* HashMap::remove on MonitorDispatcher.monitors
remove(ms, ids) == [k \in DOMAIN ms \ ids |-> ms[k]]

\* update_is_active that looks at registration only
update_is_active_registered(ms) == DOMAIN ms # {}

\* MonitorDispatcher::update_is_active: the value stored into is_active
update_is_active(ms) == \E id \in DOMAIN ms : ~ms[id].paused

\* set_monitor_paused that creates an entry for an unknown id
set_monitor_paused_any(ms, id, paused) ==
    insert(ms, id, [paused |-> paused,
                    faulty |-> IF id \in DOMAIN ms THEN ms[id].faulty
                               ELSE FALSE,
                    calls |-> IF id \in DOMAIN ms THEN ms[id].calls
                              ELSE << >>])

\* MonitorDispatcher::set_monitor_paused
set_monitor_paused(ms, id, paused) ==
    IF id \in DOMAIN ms THEN [ms EXCEPT ![id].paused = paused] ELSE ms

\* MonitorDispatcher::set_monitors_paused_to_all
set_monitors_paused_to_all(ms, paused) ==
    [k \in DOMAIN ms |-> [ms[k] EXCEPT !.paused = paused]]

\* notify that stops at the first panic: no monitor is called after it
notify_abort(ms, event, panicking) ==
    LET called == [k \in DOMAIN ms |->
                     IF ~ms[k].paused /\ panicking = {}
                     THEN [ms[k] EXCEPT !.calls = Append(@, event.seq)]
                     ELSE ms[k]]
    IN  remove(called, panicking)

\* MonitorDispatcher::notify: every unpaused monitor is called under
\* catch_unwind; the monitors of the set panicking unwind and are removed
\* afterwards through ids_to_remove
notify(ms, event, panicking) ==
    LET called == [k \in DOMAIN ms |->
                     IF ~ms[k].paused /\ k \notin panicking
                     THEN [ms[k] EXCEPT !.calls = Append(@, event.seq)]
                     ELSE ms[k]]
    IN  remove(called, panicking)

\* the monitors a callback of notify can panic in
CanPanic(ms) == {k \in DOMAIN ms : ~ms[k].paused /\ ms[k].faulty}

\* the dispatcher, changing only `monitors' and the flag
Dispatcher(ms, active, cmd) ==
    /\ monitors' = ms
    /\ is_active' = active
    /\ lastCmd' = cmd
    /\ UNCHANGED << last_id, dispatcher, obsCount, monChan, appVars >>

\* handle_command(AddMonitor(monitor, resp)): last_id += 1 on the u8 wraps
\* in a build without overflow checks and panics in one with them; the
\* panic ends the dispatcher task before is_active and resp are written
AddMonitor(faulty) ==
    /\ dispatcher = "run"
    /\ LET id == last_id
           ms == insert(monitors, id, MonitorEntry_new(faulty))
       IN  /\ monitors' = ms
           /\ \/ /\ last_id' = (last_id + 1) % (2 ^ MonitorIdBits)
                 /\ is_active' = update_is_active(ms)
                 /\ lastCmd' = [cmd |-> "AddMonitor", id |-> id, seq |-> 0,
                             panicked |-> {}]
                 /\ UNCHANGED dispatcher
              \/ /\ last_id + 1 = 2 ^ MonitorIdBits
                 /\ dispatcher' = "panicked"
                 /\ lastCmd' = [cmd |-> "panic", id |-> id, seq |-> 0,
                             panicked |-> {}]
                 /\ UNCHANGED << last_id, is_active >>
    /\ UNCHANGED << obsCount, monChan, appVars >>

\* handle_command(RemoveMonitor(id))
RemoveMonitor(id) ==
    /\ dispatcher = "run"
    /\ LET ms == remove(monitors, {id})
       IN  Dispatcher(ms, update_is_active(ms),
                      [cmd |-> "RemoveMonitor", id |-> id, seq |-> 0,
                       panicked |-> {}])

\* handle_command(PauseAll)
PauseAll ==
    /\ dispatcher = "run"
    /\ LET ms == set_monitors_paused_to_all(monitors, TRUE)
       IN  Dispatcher(ms, update_is_active(ms),
                      [cmd |-> "PauseAll", id |-> -1, seq |-> 0,
                       panicked |-> {}])

\* handle_command(ResumeAll)
ResumeAll ==
    /\ dispatcher = "run"
    /\ LET ms == set_monitors_paused_to_all(monitors, FALSE)
       IN  Dispatcher(ms, update_is_active(ms),
                      [cmd |-> "ResumeAll", id |-> -1, seq |-> 0,
                       panicked |-> {}])

\* handle_command(PauseOne(id)) and handle_command(ResumeOne(id)):
\* update_is_active runs only when the entry exists
PauseOne(id, paused) ==
    /\ dispatcher = "run"
    /\ LET ms == set_monitor_paused(monitors, id, paused)
       IN  Dispatcher(ms,
                      IF id \in DOMAIN monitors THEN update_is_active(ms)
                      ELSE is_active,
                      [cmd |-> IF paused THEN "PauseOne" ELSE "ResumeOne",
                       id |-> id, seq |-> 0,
                       panicked |-> {}])

\* handle_command(DispatchEvent(event)): handle_event and notify when
\* is_active is set, the catch-all arm otherwise
DispatchEvent(panicking) ==
    /\ dispatcher = "run"
    /\ monChan # << >>
    /\ panicking \subseteq CanPanic(monitors)
    /\ ~is_active => panicking = {}
    /\ LET event == Head(monChan)
           ms == IF is_active THEN notify(monitors, event, panicking)
                 ELSE monitors
       IN  /\ monitors' = ms
           /\ is_active' = IF panicking # {} THEN update_is_active(ms)
                           ELSE is_active
           /\ lastCmd' = [cmd |-> "DispatchEvent", id |-> -1,
                          seq |-> event.seq, panicked |-> panicking]
    /\ monChan' = Tail(monChan)
    /\ UNCHANGED << last_id, dispatcher, obsCount, appVars >>

\* MonitorDispatcher::run, the cancelled branch
dispatcher_cancelled ==
    /\ dispatcher = "run"
    /\ monCancelled
    /\ dispatcher' = "done"
    /\ UNCHANGED << monitors, last_id, is_active, monChan, lastCmd,
                    obsCount, appVars >>

\* MonitorRegistry::cancel
MonitorRegistry_cancel ==
    /\ ~monCancelled
    /\ monCancelled' = TRUE
    /\ UNCHANGED << sup, started, viaJoin, regResult, lastId, stopResult,
                    joinResult, joinFirst, brokerCancelled, cancelled,
                    nextPtr, tasksLeft, brokerVars, mailbox, inbound,
                    completed, nextId, accepted, ctlVars >>

\* a caller that saw is_active hands an observation to MonitoringSink::send
emit(kind, env, actor) ==
    /\ MonitoringSink_is_active
    /\ obsCount < MaxObs
    /\ obsCount' = obsCount + 1
    /\ monChan' = MonitoringSink_send(monChan,
                      MonitoringEvent(kind, env, actor, "None",
                                      obsCount + 1))
    /\ UNCHANGED << monitors, last_id, is_active, dispatcher, lastCmd,
                    appVars >>

\* ----------------------------------------------------------------- broker
\* the filters of send_event without the sender filter
send_filter_with_sender(s, e) ==
    /\ contains(s.topics, from_event(e.event))
    /\ ~is_closed(s)

\* the three filters of the for loop in Broker::send_event
send_filter(s, e) ==
    /\ contains(s.topics, from_event(e.event))
    /\ ~is_closed(s)
    /\ ~ActorId_eq(s.actor_id, e.sender)

\* the for loop of Broker::send_event, from subscriber k on
RECURSIVE send_loop(_, _, _, _, _, _, _, _)
send_loop(subs, k, e, mb, blk, tbc, is_recording, obs) ==
    IF k > Len(subs)
    THEN [mailbox |-> mb, blocked |-> blk, to_be_closed |-> tbc, obs |-> obs]
    ELSE LET s == subs[k]
             p == s.actor_id.ptr
             pol == overflow_policy(from_event(e.event))
             dispatched == record(is_recording, obs, "EventDispatched", e, p)
             overflow == record(is_recording, obs, "Overflow", e, p)
         IN  IF ~send_filter(s, e)
             THEN send_loop(subs, k + 1, e, mb, blk, tbc, is_recording, obs)
             ELSE IF Len(mb[p]) < channel_size
             THEN send_loop(subs, k + 1, e, [mb EXCEPT ![p] = Append(@, e)],
                            blk, tbc, is_recording, dispatched)
             ELSE IF pol = "Fail"
             THEN send_loop(subs, k + 1, e, mb, blk, tbc \cup {p},
                            is_recording, overflow)
             ELSE IF pol = "Drop"
             THEN send_loop(subs, k + 1, e, mb, blk, tbc, is_recording,
                            overflow)
             ELSE send_loop(subs, k + 1, e, mb, blk \cup {p}, tbc,
                            is_recording, overflow)

\* Broker::send_event up to the join_all of the deferred sends; the flag is
\* read once, before the loop
send_event(e) ==
    send_loop(subscribers, 1, e, mailbox, {}, {}, MonitoringSink_is_active,
              << >>)

\* a retain that removes nothing
retain_all(subs, tbc) == subs

\* subscribers.retain(|s| !to_be_closed.contains(&s.actor_id)) in Broker::run
retain(subs, tbc) ==
    LET keep(s) == s.actor_id.ptr \notin tbc IN SelectSeq(subs, keep)

\* Broker::recv: everything the inbound receiver holds, in channel order
recv(channel) == channel

\* the spawned task of Supervisor::start takes the broker mutex; Broker::run
\* then moves the receivers out of the broker
broker_lock ==
    /\ brk = "spawned"
    /\ brokerLock = "free"
    /\ brokerLock' = "broker"
    /\ brk' = "select"
    /\ UNCHANGED << supVars, subscribers, batch, blocked, to_be_closed,
                    routed, mailbox, inbound, ctlVars, completed, nextId,
                    accepted >>

\* Broker::run, select branch 1: the broker token is cancelled
broker_break ==
    /\ brk = "select"
    /\ brokerCancelled
    /\ brk' = "shutdown"
    /\ UNCHANGED << supVars, brokerLock, subscribers, batch, blocked,
                    to_be_closed, routed, mailbox, inbound, ctlVars, completed,
                    nextId, accepted >>

\* a cleanup that also removes the subscribers whose mailbox is empty
cleanup_idle ==
    /\ brk = "select"
    /\ ~brokerCancelled
    /\ subscribers' = LET busy(s) == ~is_closed(s) /\ mailbox[s.actor_id.ptr] # << >>
                      IN  SelectSeq(subscribers, busy)
    /\ UNCHANGED << supVars, brk, brokerLock, batch, blocked,
                    to_be_closed, routed, mailbox, inbound, ctlVars, completed,
                    nextId, accepted >>

\* Broker::cleanup, run by select branch 2 on a maintenance tick
cleanup ==
    /\ brk = "select"
    /\ ~brokerCancelled
    /\ subscribers' = LET open(s) == ~is_closed(s) IN SelectSeq(subscribers, open)
    /\ UNCHANGED << supVars, brk, brokerLock, batch, blocked,
                    to_be_closed, routed, mailbox, inbound, ctlVars, completed,
                    nextId, accepted >>

\* Broker::run, select branch 3: recv yields the queued envelopes
broker_recv ==
    /\ brk = "select"
    /\ ~brokerCancelled
    /\ inbound # << >>
    /\ batch' = recv(inbound)
    /\ inbound' = << >>
    /\ brk' = "dispatch"
    /\ UNCHANGED << supVars, brokerLock, subscribers, blocked,
                    to_be_closed, routed, mailbox, ctlVars, completed, nextId,
                    accepted >>

\* the end of one iteration of "for e in events" in Broker::run
finish_event(tbc) ==
    /\ subscribers' = retain(subscribers, tbc)
    /\ batch' = Tail(batch)
    /\ brk' = IF Tail(batch) = << >> THEN "select" ELSE "dispatch"
    /\ blocked' = {}
    /\ to_be_closed' = {}

\* Broker::send_event on the next envelope of the batch
broker_send_event ==
    /\ brk = "dispatch"
    /\ LET e == Head(batch)
           r == send_event(e)
       IN  /\ mailbox' = r.mailbox
           /\ routed' = routed \cup {e.id}
           /\ monChan' = send_all(monChan, r.obs, obsCount)
           /\ obsCount' = obsCount + Len(r.obs)
           /\ IF r.blocked = {}
              THEN finish_event(r.to_be_closed)
              ELSE /\ brk' = "blocked"
                   /\ blocked' = r.blocked
                   /\ to_be_closed' = r.to_be_closed
                   /\ UNCHANGED << subscribers, batch >>
    /\ UNCHANGED << supVars, brokerLock, inbound, ctx, ctl, cnt, pending,
                    handled, tick_limit, alive, step_ft, hist, completed,
                    nextId, accepted, monitors, last_id, is_active,
                    dispatcher, lastCmd, testVars >>

\* deferred sends awaited one after the other instead of by join_all
broker_blocked_send_in_turn(p) ==
    /\ brk = "blocked"
    /\ p \in blocked
    /\ \A q \in blocked : p <= q
    /\ \/ ctl[p] = "done"
       \/ Len(mailbox[p]) < channel_size
    /\ mailbox' = IF ctl[p] = "done" THEN mailbox
                  ELSE [mailbox EXCEPT ![p] = Append(@, Head(batch))]
    /\ IF blocked = {p}
       THEN finish_event(to_be_closed)
       ELSE /\ blocked' = blocked \ {p}
            /\ UNCHANGED << brk, subscribers, batch, to_be_closed >>
    /\ UNCHANGED << supVars, brokerLock, routed, inbound, ctlVars,
                    completed, nextId, accepted >>

\* one deferred subscriber.sender.send(event) of join_all completes: the
\* mailbox has room, or its receiver is gone and the send returns an error
broker_blocked_send(p) ==
    /\ brk = "blocked"
    /\ p \in blocked
    /\ \/ ctl[p] = "done"
       \/ Len(mailbox[p]) < channel_size
    /\ mailbox' = IF ctl[p] = "done" THEN mailbox
                  ELSE [mailbox EXCEPT ![p] = Append(@, Head(batch))]
    /\ IF blocked = {p}
       THEN finish_event(to_be_closed)
       ELSE /\ blocked' = blocked \ {p}
            /\ UNCHANGED << brk, subscribers, batch, to_be_closed >>
    /\ UNCHANGED << supVars, brokerLock, routed, inbound, ctlVars,
                    completed, nextId, accepted >>

\* Broker::is_empty
is_empty ==
    \A i \in 1..Len(subscribers) :
        is_closed(subscribers[i]) \/ mailbox[subscribers[i].actor_id.ptr] = << >>

\* Broker::shutdown returns (mailboxes empty or the 10 ms budget spent), run
\* returns Ok, the receivers it holds are dropped and the mutex is released
shutdown ==
    /\ brk = "shutdown"
    /\ brk' = "done"
    /\ brokerLock' = "free"
    /\ completed' = Append(completed, [task |-> BrokerTask, res |-> Ok])
    /\ UNCHANGED << supVars, subscribers, batch, blocked, to_be_closed,
                    routed, mailbox, inbound, ctlVars, nextId, accepted >>

\* ------------------------------------------------------------- controller
\* a controller task returns res: its receiver is dropped and the JoinSet
\* holds the result
task_done(i, res) ==
    /\ ctl' = [ctl EXCEPT ![i] = "done"]
    /\ cnt' = [cnt EXCEPT ![i] = 0]
    /\ completed' = Append(completed, [task |-> i, res |-> res])

\* a receive that takes the newest envelope of the mailbox
mailbox_recv_newest(q) ==
    [event |-> q[Len(q)], rest |-> SubSeq(q, 1, Len(q) - 1)]

\* Receiver::recv / try_recv on the actor's mailbox
mailbox_recv(q) == [event |-> Head(q), rest |-> Tail(q)]

\* Context::send called by user code in on_start or in a handler: the
\* envelope is queued, or the call waits for room in the inbound channel;
\* max bounds the envelopes of a run
Context_send_upto(i, event, max) ==
    /\ ctl[i] \in {"on_start", "handling"}
    /\ pending[i] = NoEnv
    /\ nextId <= max
    /\ brk # "done"
    /\ LET e == Envelope_new(event, ctx[i], ctl[i])
       IN  IF Len(inbound) < channel_size
           THEN /\ inbound' = Append(inbound, e)
                /\ accepted' = accepted \cup {e}
                /\ UNCHANGED pending
           ELSE /\ pending' = [pending EXCEPT ![i] = e]
                /\ UNCHANGED << inbound, accepted >>
    /\ nextId' = nextId + 1
    /\ UNCHANGED << supVars, brokerVars, stepVars, mailbox, ctx, ctl, cnt,
                    handled, completed >>

\* Context::send in a run of at most MaxEvents envelopes
Context_send(i, event) == Context_send_upto(i, event, MaxEvents)

\* a waiting Sender::send of Context::send_envelope completes: the inbound
\* channel has room, or its receiver was dropped and the send fails
send_envelope(i) ==
    /\ pending[i] # NoEnv
    /\ \/ brk = "done"
       \/ Len(inbound) < channel_size
    /\ IF brk = "done"
       THEN UNCHANGED << inbound, accepted >>
       ELSE /\ inbound' = Append(inbound, pending[i])
            /\ accepted' = accepted \cup {pending[i]}
    /\ pending' = [pending EXCEPT ![i] = NoEnv]
    /\ UNCHANGED << supVars, brokerVars, stepVars, mailbox, ctx, ctl, cnt,
                    handled, completed, nextId >>

\* ActorHandler::run: on_start returns
on_start(i, ok) ==
    /\ ctl[i] = "on_start"
    /\ pending[i] = NoEnv
    /\ hist' = [hist EXCEPT ![i].on_start = @ + 1]
    /\ IF ok
       THEN /\ ctl' = [ctl EXCEPT ![i] = "select"]
            /\ UNCHANGED << cnt, completed >>
       ELSE task_done(i, Err(i))
    /\ UNCHANGED << supVars, brokerVars, cfgVars, alive, step_ft, mailbox,
                    inbound, ctx, pending, handled, nextId, accepted >>

\* Context::stop called by user code in on_start or in a handler
Context_stop(i) ==
    /\ ctl[i] \in {"on_start", "handling"}
    /\ alive[i]
    /\ alive' = [alive EXCEPT ![i] = FALSE]
    /\ UNCHANGED << supVars, brokerVars, cfgVars, step_ft, hist, mailbox,
                    inbound, ctx, ctl, cnt, pending, handled, completed,
                    nextId, accepted >>

\* struct StepHandler: a backoff sleep is installed or not, and the pause
StepHandlers == [backoff : BOOLEAN, pause : {"None", "AwaitEvent", "Suppressed"}]

\* StepHandler::is_delayed
is_delayed(h) == h.backoff /\ h.pause = "None"

\* StepHandler::can_step
can_step(h) == ~h.backoff /\ h.pause = "None"

\* handle_step_action: the StepHandler after step() returned step_action
handle_step_action(step_action, h) ==
    CASE step_action = "Continue" -> [h EXCEPT !.pause = "None"]
      [] step_action = "AwaitEvent" -> [h EXCEPT !.pause = "AwaitEvent"]
      [] step_action = "Backoff" -> [backoff |-> TRUE, pause |-> "None"]
      [] step_action = "Never" -> [h EXCEPT !.pause = "Suppressed"]

\* a loop exit that returns without calling on_shutdown
loop_exit_no_shutdown(i) ==
    /\ ctl[i] = "select"
    /\ ~alive[i]
    /\ task_done(i, Ok)
    /\ UNCHANGED << supVars, brokerVars, stepVars, mailbox, inbound, ctx,
                    pending, handled, nextId, accepted >>

\* ActorHandler::run: "while self.ctx.is_alive()" finds the flag cleared and
\* on_shutdown is called; the actor mutex must be free for that
loop_exit(i) ==
    /\ ctl[i] = "select"
    /\ ~alive[i]
    /\ IF step_ft[i] = "running"
       THEN /\ ctl' = [ctl EXCEPT ![i] = "lock_wait"]
            /\ UNCHANGED hist
       ELSE /\ ctl' = [ctl EXCEPT ![i] = "on_shutdown"]
            /\ hist' = [hist EXCEPT ![i].on_shutdown = @ + 1]
    /\ UNCHANGED << supVars, brokerVars, cfgVars, alive, step_ft, mailbox,
                    inbound, ctx, cnt, pending, handled, completed, nextId,
                    accepted >>

\* ActorHandler::run, select branch 1: the controllers' token is cancelled;
\* the step future is dropped, ctx.stop() is called and on_shutdown follows
ctl_cancelled(i) ==
    /\ ctl[i] = "select"
    /\ alive[i]
    /\ cancelled
    /\ step_ft' = [step_ft EXCEPT ![i] = "none"]
    /\ alive' = [alive EXCEPT ![i] = FALSE]
    /\ ctl' = [ctl EXCEPT ![i] = "on_shutdown"]
    /\ hist' = [hist EXCEPT ![i].on_shutdown = @ + 1]
    /\ UNCHANGED << supVars, brokerVars, cfgVars, mailbox, inbound, ctx,
                    cnt, pending, handled, completed, nextId, accepted >>

\* a mailbox branch that is taken whatever the alive flag says
ctl_recv_not_alive(i) ==
    /\ ctl[i] = "select"
    /\ ~cancelled
    /\ mailbox[i] # << >>
    /\ LET r == mailbox_recv(mailbox[i])
       IN  /\ mailbox' = [mailbox EXCEPT ![i] = r.rest]
           /\ handled' = [handled EXCEPT ![i] = Append(@, r.event)]
           /\ ctl' = [ctl EXCEPT ![i] = "handling"]
           /\ cnt' = [cnt EXCEPT ![i] = 1]
           /\ hist' = [hist EXCEPT ![i].since = TRUE]
    /\ UNCHANGED << supVars, brokerVars, cfgVars, alive, step_ft, inbound,
                    ctx, pending, completed, nextId, accepted >>

\* ActorHandler::run, select branch 2: an envelope is received and its
\* handle_envelope starts once the actor mutex is locked; a step() call in
\* progress holds that mutex and is not polled while the branch runs
ctl_recv(i) ==
    /\ ctl[i] = "select"
    /\ alive[i]
    /\ ~cancelled
    /\ mailbox[i] # << >>
    /\ LET r == mailbox_recv(mailbox[i])
       IN  /\ mailbox' = [mailbox EXCEPT ![i] = r.rest]
           /\ IF step_ft[i] = "running"
              THEN /\ ctl' = [ctl EXCEPT ![i] = "lock_wait"]
                   /\ UNCHANGED << handled, cnt, hist >>
              ELSE /\ handled' = [handled EXCEPT ![i] = Append(@, r.event)]
                   /\ ctl' = [ctl EXCEPT ![i] = "handling"]
                   /\ cnt' = [cnt EXCEPT ![i] = 1]
                   /\ hist' = [hist EXCEPT ![i].since = TRUE]
    /\ UNCHANGED << supVars, brokerVars, cfgVars, alive, step_ft, inbound,
                    ctx, pending, completed, nextId, accepted >>

\* handle_envelope returns ok or an error, handle_error passes an error to
\* on_error, which swallows it or not; then the try_recv loop of the mailbox
\* branch takes the next envelope or the branch ends
handle_envelope_result(i, ok, swallow) ==
    /\ ctl[i] = "handling"
    /\ pending[i] = NoEnv
    /\ hist' = IF ok THEN hist ELSE [hist EXCEPT ![i].on_error = @ + 1]
    /\ IF ~ok /\ ~swallow
       THEN /\ task_done(i, Err(i))
            /\ UNCHANGED << mailbox, handled >>
       ELSE IF (cnt[i] > 1 /\ cnt[i] = tick_limit) \/ mailbox[i] = << >>
       THEN /\ ctl' = [ctl EXCEPT ![i] = "select"]
            /\ cnt' = [cnt EXCEPT ![i] = 0]
            /\ UNCHANGED << mailbox, handled, completed >>
       ELSE LET r == mailbox_recv(mailbox[i])
            IN  /\ mailbox' = [mailbox EXCEPT ![i] = r.rest]
                /\ handled' = [handled EXCEPT ![i] = Append(@, r.event)]
                /\ cnt' = [cnt EXCEPT ![i] = @ + 1]
                /\ UNCHANGED << ctl, completed >>
    /\ UNCHANGED << supVars, brokerVars, cfgVars, alive, step_ft, inbound,
                    ctx, pending, nextId, accepted >>

\* handle_envelope returns and Actor::on_error is the default, which
\* propagates
handle_envelope_return(i, ok) == handle_envelope_result(i, ok, FALSE)

\* ActorHandler::run, select branch 3: the step future is polled. A first
\* poll locks the actor and calls step(); the call stays pending or returns
\* outcome, which is dropped; then yield_now and a new future is set
step_poll(i, outcome) ==
    /\ ctl[i] = "select"
    /\ alive[i]
    /\ ~cancelled
    /\ mailbox[i] = << >>
    /\ step_ft[i] # "none"
    /\ step_ft[i] = "idle" => hist[i].step < MaxSteps
    /\ ~(step_ft[i] = "running" /\ outcome = "Pending")
    /\ step_ft' = [step_ft EXCEPT
                      ![i] = IF outcome = "Pending" THEN "running" ELSE "idle"]
    /\ hist' = [hist EXCEPT
                   ![i].step = IF step_ft[i] = "idle" THEN @ + 1 ELSE @,
                   ![i].last = IF outcome = "Pending" THEN @ ELSE outcome,
                   ![i].since = IF outcome = "Pending" THEN @ ELSE FALSE]
    /\ UNCHANGED << supVars, brokerVars, cfgVars, alive, mailbox, inbound,
                    ctx, ctl, cnt, pending, handled, completed, nextId,
                    accepted >>

\* ActorHandler::run: on_shutdown returns and so does run
on_shutdown(i, ok) ==
    /\ ctl[i] = "on_shutdown"
    /\ task_done(i, IF ok THEN Ok ELSE Err(i))
    /\ UNCHANGED << supVars, brokerVars, stepVars, mailbox, inbound, ctx,
                    pending, handled, nextId, accepted >>

\* ------------------------------------------------------------- supervisor
\* Supervisor::stop is called: MonitorRegistry::stop cancels the dispatcher
\* and awaits it
stop ==
    /\ sup = "idle"
    /\ started
    /\ monCancelled' = TRUE
    /\ sup' = "stop_drain"
    /\ UNCHANGED << started, viaJoin, regResult, lastId, stopResult,
                    joinResult, joinFirst, brokerCancelled, cancelled, nextPtr,
                    tasksLeft, brokerVars, mailbox, inbound, ctlVars,
                    completed, nextId, accepted >>

\* Supervisor::stop, step 1 and the first half of step 2: the wait for the
\* inbound channel ends (drained, or 10 ms passed) and the broker token is
\* cancelled
stop_cancel_broker ==
    /\ sup = "stop_drain"
    /\ brokerCancelled' = TRUE
    /\ sup' = "stop_lock"
    /\ UNCHANGED << started, viaJoin, regResult, lastId, stopResult,
                    joinResult, joinFirst, monCancelled, cancelled, nextPtr,
                    tasksLeft, brokerVars, mailbox, inbound, ctlVars,
                    completed, nextId, accepted >>

\* Supervisor::stop, step 2 and step 3: the broker mutex is acquired and
\* released at once, then the controllers' token is cancelled
stop_cancel_actors ==
    /\ sup = "stop_lock"
    /\ brokerLock = "free"
    /\ cancelled' = TRUE
    /\ sup' = "stop_join"
    /\ UNCHANGED << started, viaJoin, regResult, lastId, stopResult,
                    joinResult, joinFirst, monCancelled, brokerCancelled,
                    nextPtr, tasksLeft, brokerVars, mailbox, inbound, ctlVars,
                    completed, nextId, accepted >>

\* stop() returns res; a join() that called it returns the same
stop_return(res) ==
    /\ stopResult' = res
    /\ joinResult' = IF viaJoin THEN res ELSE joinResult
    /\ viaJoin' = FALSE
    /\ sup' = "returned"

\* Supervisor::stop, the join_next loop of step 3
stop_join_next ==
    /\ sup = "stop_join"
    /\ IF tasksLeft = 0
       THEN /\ stop_return(Ok)
            /\ UNCHANGED << completed, tasksLeft >>
       ELSE /\ completed # << >>
            /\ completed' = Tail(completed)
            /\ tasksLeft' = tasksLeft - 1
            /\ IF Head(completed).res[1] = "Err"
               THEN stop_return(Head(completed).res)
               ELSE UNCHANGED << stopResult, joinResult, viaJoin, sup >>
    /\ UNCHANGED << started, regResult, lastId, joinFirst,
                    monCancelled, brokerCancelled, cancelled, nextPtr,
                    brokerVars, mailbox, inbound, ctlVars, nextId, accepted >>

\* Supervisor::join is called
join ==
    /\ sup \in {"idle", "returned"}
    /\ started
    /\ joinResult = NoRes
    /\ sup' = "join"
    /\ UNCHANGED << started, viaJoin, regResult, lastId, stopResult,
                    joinResult, joinFirst, monCancelled, brokerCancelled,
                    cancelled, nextPtr, tasksLeft, brokerVars, mailbox,
                    inbound, ctlVars, completed, nextId, accepted >>

\* Supervisor::join, one iteration of its join_next loop
join_next ==
    /\ sup = "join"
    /\ IF tasksLeft = 0
       THEN /\ joinResult' = Ok
            /\ sup' = "returned"
            /\ UNCHANGED << completed, tasksLeft, joinFirst, viaJoin,
                            monCancelled >>
       ELSE /\ completed # << >>
            /\ completed' = Tail(completed)
            /\ tasksLeft' = tasksLeft - 1
            /\ joinFirst' = IF joinFirst = NoTask THEN Head(completed)
                            ELSE joinFirst
            /\ IF ~cancelled
               THEN /\ viaJoin' = TRUE
                    /\ monCancelled' = TRUE
                    /\ sup' = "stop_drain"
                    /\ UNCHANGED joinResult
               ELSE /\ UNCHANGED << viaJoin, monCancelled >>
                    /\ IF Head(completed).res[1] = "Err"
                       THEN /\ joinResult' = Head(completed).res
                            /\ sup' = "returned"
                       ELSE UNCHANGED << joinResult, sup >>
    /\ UNCHANGED << started, regResult, lastId, stopResult,
                    brokerCancelled, cancelled, nextPtr, brokerVars, mailbox,
                    inbound, ctlVars, nextId, accepted >>

\* ----------------------------------------------------------- specifications
\* subscriptions handed to add_actor by the driving programs
RegTopics == {All, None, Topics({"Data"}), Topics({"Command", "Telemetry"})}

\* the names the routing program gives its actors, in registration order
NameSeq == << "a", "b", "c", "d" >>

\* The whole runtime under a program that registers actors, starts the
\* supervisor and then stops or joins it; every hook may fail.
Next ==
    \/ \E n \in Names : register_actor(n, All)
    \/ start
    \/ stop
    \/ stop_cancel_broker
    \/ stop_cancel_actors
    \/ stop_join_next
    \/ join
    \/ join_next
    \/ broker_lock
    \/ broker_break
    \/ cleanup
    \/ broker_recv
    \/ broker_send_event
    \/ \E p \in Ptrs : broker_blocked_send(p)
    \/ shutdown
    \/ \E i \in Ptrs : ctl[i] = "on_start" /\ Context_send(i, "Data")
    \/ \E i \in Ptrs : send_envelope(i)
    \/ \E i \in Ptrs, ok \in BOOLEAN : on_start(i, ok)
    \/ \E i \in Ptrs : ctl_cancelled(i)
    \/ \E i \in Ptrs : ctl_recv(i)
    \/ \E i \in Ptrs, ok \in BOOLEAN : handle_envelope_return(i, ok)
    \/ \E i \in Ptrs, ok \in BOOLEAN : on_shutdown(i, ok)

Spec == Init /\ [][Next]_vars

\* Registration: actors are added under any name before and after start(),
\* the broker's add_subscriber is also called directly; no event is sent.
NextReg ==
    \/ \E n \in Names, t \in {All, Topics({"Data"})} : register_actor(n, t)
    \/ \E i \in Ptrs, t \in {All, Topics({"Data"})} : add_subscriber_clone(i, t)
    \/ start
    \/ stop
    \/ stop_cancel_broker
    \/ stop_cancel_actors
    \/ stop_join_next
    \/ broker_lock
    \/ broker_break
    \/ cleanup
    \/ shutdown
    \/ \E i \in Ptrs, ok \in BOOLEAN : on_start(i, ok)
    \/ \E i \in Ptrs : ctl_cancelled(i)
    \/ \E i \in Ptrs : on_shutdown(i, TRUE)

SpecReg == Init /\ [][NextReg]_vars

\* Routing: actors with any subscription are registered before start(); the
\* first of them is the producer, emitting any events from on_start; an
\* on_start may fail, which closes the actor's mailbox.
NextRoute ==
    \/ \E t \in RegTopics : ~started /\ register_actor(NameSeq[nextPtr], t)
    \/ start
    \/ broker_lock
    \/ cleanup
    \/ broker_recv
    \/ broker_send_event
    \/ \E p \in Ptrs : broker_blocked_send(p)
    \/ \E ev \in Events : Context_send(1, ev)
    \/ send_envelope(1)
    \/ \E i \in Ptrs, ok \in BOOLEAN : on_start(i, ok)
    \/ \E i \in Ptrs : ctl_recv(i)
    \/ \E i \in Ptrs : handle_envelope_return(i, TRUE)

SpecRoute == Init /\ [][NextRoute]_vars

\* the overflow policies: two subscribers registered before start, the
\* supervisor is the producer, handlers succeed
NextPolicy ==
    \/ \E t \in RegTopics : ~started /\ register_actor(NameSeq[nextPtr], t)
    \/ start
    \/ \E ev \in Events : started /\ Supervisor_send(ev)
    \/ broker_lock
    \/ cleanup
    \/ broker_recv
    \/ broker_send_event
    \/ \E p \in Ptrs : broker_blocked_send(p)
    \/ \E i \in Ptrs : on_start(i, TRUE)
    \/ \E i \in Ptrs : ctl_recv(i)
    \/ \E i \in Ptrs : handle_envelope_return(i, TRUE)

SpecPolicy == Init /\ [][NextPolicy]_vars

\* one controller from registration to the end of its task: its callbacks
\* succeed or fail, its step() returns any StepAction or stays pending, and
\* the supervisor sends it events and stops
NextCtl ==
    \/ ~started /\ nextPtr = 1 /\ register_actor("a", All)
    \/ start
    \/ started /\ Supervisor_send("BytesSent")
    \/ broker_lock
    \/ broker_break
    \/ broker_recv
    \/ broker_send_event
    \/ shutdown
    \/ stop
    \/ stop_cancel_broker
    \/ stop_cancel_actors
    \/ stop_join_next
    \/ \E ok \in BOOLEAN : on_start(1, ok)
    \/ Context_stop(1)
    \/ loop_exit(1)
    \/ ctl_cancelled(1)
    \/ ctl_recv(1)
    \/ \E ok \in BOOLEAN, swallow \in BOOLEAN : handle_envelope_result(1, ok, swallow)
    \/ \E outcome \in StepActions \cup {"Pending"} : step_poll(1, outcome)
    \/ \E ok \in BOOLEAN : on_shutdown(1, ok)

\* every Config.max_events_per_tick from 1 up to the bound
InitCtl == \E limit \in 1..max_events_per_tick : InitAt(limit)

SpecCtl == InitCtl /\ [][NextCtl]_vars

\* two controllers whose handlers may call ctx.stop(): the supervisor sends
\* events, callbacks succeed, nobody cancels
NextStop ==
    \/ ~started /\ register_actor(NameSeq[nextPtr], All)
    \/ start
    \/ started /\ Supervisor_send("BytesSent")
    \/ broker_lock
    \/ broker_recv
    \/ broker_send_event
    \/ cleanup
    \/ \E i \in Ptrs : on_start(i, TRUE)
    \/ \E i \in Ptrs : Context_stop(i)
    \/ \E i \in Ptrs : loop_exit(i)
    \/ \E i \in Ptrs : ctl_recv(i)
    \/ \E i \in Ptrs : handle_envelope_result(i, TRUE, FALSE)
    \/ \E i \in Ptrs : on_shutdown(i, TRUE)

SpecStop == Init /\ [][NextStop]_vars

\* ------------------------------------------------------------------ claims
\* the envelopes actor p has been given so far
Received(p) == Range(mailbox[p]) \cup Range(handled[p])

\* the subscriber records of actor p
RecordsOf(p) == {s \in Range(subscribers) : s.actor_id = ctx[p]}

\* C1: no self-delivery. No envelope is ever in the mailbox of, handled by,
\* or waiting in a deferred send for, the actor whose id is its sender.
C1_NoSelfDelivery ==
    \A p \in Ptrs :
        /\ \A e \in Received(p) : e.sender # ctx[p]
        /\ p \in blocked => Head(batch).sender # ctx[p]

\* an envelope was dispatched to another actor while its sender was open and
\* subscribed to its topic
C1_Witness ==
    \E p \in Ptrs, q \in Ptrs :
        \E e \in Received(q), s \in RecordsOf(p) :
            /\ e.sender = ctx[p]
            /\ e.id \in routed
            /\ ctl[p] # "done"
            /\ s.topics.kind = "All" \/ from_event(e.event) \in s.topics.set

\* a subscription holds a topic: All holds every topic, Topics(S) those of S,
\* None holds nothing
Holds(sub, topic) ==
    \/ sub.kind = "All"
    \/ sub.kind = "Topics" /\ topic \in sub.set

\* C2: topic routing. A dispatch of envelope e enqueues one copy of e to every
\* open subscriber other than the sender that has room and whose subscription
\* holds e's topic, and leaves every mailbox whose owner's subscription does
\* not hold the topic as it was.
C2_TopicRouting ==
    [][routed' # routed =>
        LET e == Head(batch)
            t == from_event(e.event)
        IN  \A p \in Ptrs :
                LET match == \E s \in RecordsOf(p) : Holds(s.topics, t)
                IN  /\ ( /\ match
                         /\ ctl[p] # "done"
                         /\ e.sender # ctx[p]
                         /\ Len(mailbox[p]) < channel_size )
                       => mailbox'[p] = Append(mailbox[p], e)
                    /\ ~match => mailbox'[p] = mailbox[p]]_vars

\* a dispatched envelope sits in a mailbox while another subscriber's
\* explicit topic set does not hold its topic
C2_Witness ==
    \E p \in Ptrs, s \in Range(subscribers) :
        \E e \in Range(mailbox[p]) :
            /\ e.id \in routed
            /\ s.topics.kind = "Topics"
            /\ from_event(e.event) \notin s.topics.set

\* C3: FIFO per (sender, topic, receiver). Envelope ids grow in emission
\* order, so of two envelopes of one sender and one topic handled by one
\* receiver the one handled first is the one emitted first.
C3_Fifo ==
    \A p \in Ptrs :
        \A i \in 1..Len(handled[p]), j \in 1..Len(handled[p]) :
            ( /\ i < j
              /\ handled[p][i].sender = handled[p][j].sender
              /\ from_event(handled[p][i].event) = from_event(handled[p][j].event) )
            => handled[p][i].id < handled[p][j].id

\* a receiver has handled two envelopes of one sender and one topic
C3_Witness ==
    \E p \in Ptrs :
        \E i \in 1..Len(handled[p]), j \in 1..Len(handled[p]) :
            /\ i < j
            /\ handled[p][i].sender = handled[p][j].sender
            /\ from_event(handled[p][i].event) = from_event(handled[p][j].event)

\* no two subscriber records of the table carry the same actor id
UniqueSubscribers ==
    \A i \in 1..Len(subscribers), j \in 1..Len(subscribers) :
        i # j => subscribers[i].actor_id # subscribers[j].actor_id

\* C4: registration uniqueness. The table never holds two records of one
\* actor id, and add_subscriber called with an id of the table returns
\* SubscriberAlreadyExists and leaves the table as it was.
C4_RegistrationUniqueness ==
    /\ []UniqueSubscribers
    /\ [][(\E i \in Ptrs, t \in Subscriptions : add_subscriber_clone(i, t))
           => /\ regResult' = "SubscriberAlreadyExists"
              /\ subscribers' = subscribers]_vars

\* add_subscriber has refused an id that is in the table
C4_Witness ==
    /\ regResult = "SubscriberAlreadyExists"
    /\ \E s \in Range(subscribers) : s.actor_id = lastId

\* a step of add_actor: it is the only operation that takes a fresh id
AddActorStep == nextPtr' # nextPtr

\* C5: duplicate name at registration. An add_actor call made before start
\* with a name that a record of the table already carries returns
\* SubscriberAlreadyExists, adds no record and spawns no controller task.
C5_DuplicateName ==
    [][( /\ AddActorStep
         /\ ~started
         /\ \E s \in Range(subscribers) : s.actor_id.name = lastId'.name )
       => /\ regResult' = "SubscriberAlreadyExists"
          /\ subscribers' = subscribers
          /\ tasksLeft' = tasksLeft
          /\ ctl' = ctl]_vars

\* C6: registration gate. An add_actor call made after start() has returned
\* returns BrokerAlreadyStarted, adds no record and spawns no controller task.
C6_RegistrationGate ==
    [][(AddActorStep /\ started)
       => /\ regResult' = "BrokerAlreadyStarted"
          /\ subscribers' = subscribers
          /\ tasksLeft' = tasksLeft
          /\ ctl' = ctl]_vars

\* no controller is past the start gate before start() has spawned the broker
\* task and signalled the notifier
StartGate ==
    \A p \in Ptrs :
        ctl[p] \notin {"none", "gated"} => started /\ brk # "unspawned"

\* every event sent from on_start and taken by the inbound channel has been
\* dispatched by the time the broker task has ended
OnStartRouted ==
    brk = "done" =>
        \A e \in accepted : e.origin = "on_start" => e.id \in routed

\* C7: startup gate. No controller runs on_start before start() has spawned
\* the broker and signalled; the signal of start() leaves no controller
\* gated; and an event sent from on_start is dispatched by the broker.
C7_StartupGate ==
    /\ []StartGate
    /\ [][(~started /\ started') => \A p \in Ptrs : ctl'[p] # "gated"]_vars
    /\ []OnStartRouted

\* C8: shutdown ordering. When the controllers' token is cancelled the
\* monitoring dispatcher and the broker token have been cancelled and the
\* broker's run has returned.
C8_ShutdownOrdering ==
    cancelled => /\ monCancelled
                 /\ brokerCancelled
                 /\ brk = "done"

\* C9: shutdown completion. At the step in which stop() returns, every
\* controller task and the broker task has ended.
C9_ShutdownCompletion ==
    [][(stopResult = NoRes /\ stopResult' # NoRes)
       => /\ \A p \in Ptrs : ctl'[p] \in {"none", "done"}
          /\ brk' = "done"]_vars

\* C10: error propagation through join(). When the first task join() saw
\* complete is a controller that returned an error, join() returns that error.
C10_JoinError ==
    [][( /\ joinResult = NoRes
         /\ joinResult' # NoRes
         /\ joinFirst' # NoTask
         /\ joinFirst'.task \in Ptrs
         /\ joinFirst'.res[1] = "Err" )
       => joinResult' = joinFirst'.res]_vars

\* the step is Broker::send_event acting on the head of the batch
Dispatch == routed' # routed

\* the broker offers envelope e to actor p: p has a record whose subscription
\* holds e's topic, p's receiver is alive and p is not the sender
Offered(p, e) ==
    /\ \E s \in RecordsOf(p) : Holds(s.topics, from_event(e.event))
    /\ ctl[p] # "done"
    /\ e.sender # ctx[p]

\* p's mailbox has no room
Full(p) == Len(mailbox[p]) = channel_size

\* the events whose topic has each policy in the backpressure example
FailEvents == {"Start"}
DropEvents == {"BytesSent"}
BlockEvents == {"Data"}

\* C11: Fail policy. A dispatch of a Fail-policy envelope that finds p's
\* mailbox full leaves p's mailbox as it was and removes p's record in the
\* same step, keeps every other record, enqueues the envelope to every other
\* offered subscriber with room, and leaves the broker in its loop; an actor
\* without a record is never enqueued to again.
C11_FailPolicy ==
    /\ [][(Dispatch /\ Head(batch).event \in FailEvents) =>
            LET e == Head(batch)
                failing == {p \in Ptrs : Offered(p, e) /\ Full(p)}
            IN  /\ \A p \in failing :
                    /\ mailbox'[p] = mailbox[p]
                    /\ \A k \in 1..Len(subscribers') :
                           subscribers'[k].actor_id # ctx[p]
                /\ \A k \in 1..Len(subscribers) :
                       subscribers[k].actor_id.ptr \notin failing
                       => \E j \in 1..Len(subscribers') :
                              subscribers'[j] = subscribers[k]
                /\ \A q \in Ptrs \ failing :
                       Offered(q, e) => mailbox'[q] = Append(mailbox[q], e)
                /\ brk' \in {"select", "dispatch"}]_vars
    /\ [][\A p \in Ptrs :
            (ctl[p] # "none" /\ RecordsOf(p) = {})
            => Len(mailbox'[p]) <= Len(mailbox[p])]_vars

\* an actor has lost its record on a full mailbox while another actor has
\* been given the Fail-policy envelope that it was refused
C11_Witness ==
    \E p \in Ptrs, q \in Ptrs :
        /\ ctl[p] # "none"
        /\ RecordsOf(p) = {}
        /\ Len(mailbox[p]) = channel_size
        /\ \E e \in Received(q) : e.event \in FailEvents /\ e \notin Received(p)

\* C12: Drop policy. A dispatch of a Drop-policy envelope that finds p's
\* mailbox full leaves p's mailbox and the whole subscriber table as they
\* were, defers no send and leaves the broker in its loop; a later envelope
\* offered to p when its mailbox has room is enqueued.
C12_DropPolicy ==
    /\ [][(Dispatch /\ Head(batch).event \in DropEvents) =>
            LET e == Head(batch)
            IN  (\E p \in Ptrs : Offered(p, e) /\ Full(p))
                => /\ \A p \in Ptrs :
                          (Offered(p, e) /\ Full(p)) => mailbox'[p] = mailbox[p]
                   /\ subscribers' = subscribers
                   /\ blocked' = {}
                   /\ brk' \in {"select", "dispatch"}]_vars
    /\ [][Dispatch =>
            \A p \in Ptrs :
                (Offered(p, Head(batch)) /\ ~Full(p))
                => mailbox'[p] = Append(mailbox[p], Head(batch))]_vars

\* a Drop-policy envelope has been dispatched and a subscriber whose
\* subscription holds its topic was not given it and is still in the table
C12_Witness ==
    \E p \in Ptrs, e \in accepted :
        /\ e.id \in routed
        /\ e.event \in DropEvents
        /\ \E s \in RecordsOf(p) : Holds(s.topics, from_event(e.event))
        /\ e \notin Received(p)
        /\ Len(mailbox[p]) = channel_size

\* C13: Block policy barrier. A dispatch of a Block-policy envelope defers a
\* send for every offered subscriber whose mailbox is full and keeps the
\* envelope at the head of the batch; a deferred send ends by enqueueing the
\* envelope (or because the receiver is gone); and no dispatch begins while a
\* deferred send is outstanding.
C13_BlockBarrier ==
    /\ [][(Dispatch /\ Head(batch).event \in BlockEvents) =>
            LET e == Head(batch)
                waiting == {p \in Ptrs : Offered(p, e) /\ Full(p)}
            IN  /\ blocked' = waiting
                /\ waiting # {} => brk' = "blocked" /\ batch' = batch]_vars
    /\ [][\A p \in blocked \ blocked' :
            \/ mailbox'[p] = Append(mailbox[p], Head(batch))
            \/ ctl[p] = "done"]_vars
    /\ [][Dispatch => blocked = {} /\ brk = "dispatch"]_vars
    /\ [](blocked # {} <=> brk = "blocked")

\* the deferred send of a Block-policy envelope has completed: the envelope
\* is the newest of a mailbox that was full when it was dispatched
C13_Witness ==
    /\ blocked = {}
    /\ \E p \in Ptrs :
           /\ Len(mailbox[p]) = channel_size
           /\ handled[p] # << >>
           /\ mailbox[p][channel_size].event \in BlockEvents
           /\ \A e \in Range(handled[p]) : e.id < mailbox[p][channel_size].id
           /\ Len(handled[p]) + channel_size = Cardinality(routed)

\* C14: Block policy does not stall siblings. When a dispatch defers a send,
\* every other offered subscriber with room is given the envelope in the same
\* step, and each deferred send can complete as soon as its own mailbox has
\* room, whatever the state of the other deferred sends.
C14_BlockSiblings ==
    /\ [][(Dispatch /\ blocked' # {}) =>
            \A q \in Ptrs :
                (Offered(q, Head(batch)) /\ ~Full(q))
                => mailbox'[q] = Append(mailbox[q], Head(batch))]_vars
    /\ [](\A p \in blocked :
            ~Full(p) => ENABLED broker_blocked_send(p))

\* two sends of one envelope are deferred, one subscriber has made room and
\* the other has not
C14_Witness ==
    /\ Cardinality(blocked) = 2
    /\ \E p \in blocked, q \in blocked : ~Full(p) /\ Full(q)

\* actor i's handle_envelope or step() is called in this step
UserCall(i) == handled'[i] # handled[i] \/ hist'[i].step # hist[i].step

\* C15: controller lifecycle order. on_start returns at most once and has
\* returned before any handle_envelope or step call; on_shutdown is called
\* at most once and no handle_envelope or step call is made once it has been
\* called; and a controller leaves its select loop only into on_shutdown.
C15_LifecycleOrder ==
    /\ [](\A i \in Ptrs : hist[i].on_start <= 1 /\ hist[i].on_shutdown <= 1)
    /\ [][\A i \in Ptrs :
            UserCall(i) => /\ hist[i].on_start = 1
                           /\ hist'[i].on_shutdown = 0]_vars
    /\ [][\A i \in Ptrs :
            (ctl[i] = "select" /\ ctl'[i] \notin {"select", "handling", "lock_wait"})
            => /\ ctl'[i] = "on_shutdown"
               /\ hist'[i].on_shutdown = 1]_vars

\* a controller that handled an event and made a step() call has left its
\* loop through ctx.stop(), run on_shutdown and ended
C15_Witness ==
    \E i \in Ptrs :
        /\ ctl[i] = "done"
        /\ hist[i].on_start = 1
        /\ hist[i].on_shutdown = 1
        /\ hist[i].step > 0
        /\ handled[i] # << >>
        /\ ~cancelled

\* the task of actor i ends in this step with result res
TaskEnds(i, res) ==
    /\ ctl'[i] = "done"
    /\ completed' = Append(completed, [task |-> i, res |-> res])

\* C16: error escalation. A handle_envelope that returns calls on_error at
\* most once; when on_error swallows the error the controller stays in its
\* loop; when the controller's task ends from a handler, on_shutdown has
\* been invoked and the task result is the error.
C16_ErrorEscalation ==
    [][\A i \in Ptrs :
         ctl[i] = "handling" =>
            /\ hist'[i].on_error \in {hist[i].on_error, hist[i].on_error + 1}
            /\ ctl'[i] # "done" => ctl'[i] \in {"handling", "select"}
            /\ ctl'[i] = "done" => /\ hist'[i].on_error = hist[i].on_error + 1
                                   /\ TaskEnds(i, Err(i))
                                   /\ hist'[i].on_shutdown = 1]_vars

\* C17: step discipline. While the last StepAction a controller's step()
\* returned is Never, no step() call is made on that controller.
C17_StepNever ==
    [][\A i \in Ptrs :
         hist[i].last = "Never" => hist'[i].step = hist[i].step]_vars

\* C18: AwaitEvent. While the last StepAction returned is AwaitEvent, a
\* step() call is made only if an event has been handled since it returned.
C18_AwaitEvent ==
    [][\A i \in Ptrs :
         (hist[i].last = "AwaitEvent" /\ hist'[i].step # hist[i].step)
         => hist[i].since]_vars

\* a controller waits in its select with an envelope in its mailbox
CanReceive(i) ==
    /\ ctl[i] = "select"
    /\ alive[i]
    /\ ~cancelled
    /\ mailbox[i] # << >>

\* C19: Backoff. While the last StepAction returned is Backoff no step() call
\* is made (no sleep is installed, so none fires); a controller in its
\* select still receives; and can_step and is_delayed are never both true
\* and are both false when the pause is not None.
C19_Backoff ==
    /\ [][\A i \in Ptrs :
            hist[i].last = "Backoff" => hist'[i].step = hist[i].step]_vars
    /\ [](\A i \in Ptrs :
            (hist[i].last = "Backoff" /\ CanReceive(i)) => ENABLED ctl_recv(i))
    /\ [](\A h \in StepHandlers :
            /\ ~(can_step(h) /\ is_delayed(h))
            /\ h.pause # "None" => ~can_step(h) /\ ~is_delayed(h))

\* C20: drain bound. The number of envelopes a controller has taken in the
\* current wake-up of its mailbox branch never exceeds max_events_per_tick.
C20_DrainBound ==
    \A i \in Ptrs : cnt[i] <= tick_limit

\* C21: cancellation. Once the controllers' token is cancelled a controller
\* in its select takes neither the mailbox branch nor the step branch, and
\* no handle_envelope call starts: a handler in progress returns and the
\* controller handles no further event before on_shutdown.
C21_Cancellation ==
    /\ [](\A i \in Ptrs :
            (cancelled /\ ctl[i] = "select")
            => /\ ~ENABLED ctl_recv(i)
               /\ \A o \in StepActions \cup {"Pending"} : ~ENABLED step_poll(i, o))
    /\ [][\A i \in Ptrs : cancelled => handled'[i] = handled[i]]_vars

HandleIds == 0..MaxAdds

NextMon ==
    \/ /\ last_id < MaxAdds
       /\ Cardinality(DOMAIN monitors) < MaxMonitors
       /\ \E faulty \in BOOLEAN : AddMonitor(faulty)
    \/ \E id \in HandleIds : RemoveMonitor(id)
    \/ PauseAll
    \/ ResumeAll
    \/ \E id \in HandleIds, paused \in BOOLEAN : PauseOne(id, paused)
    \/ \E panicking \in SUBSET DOMAIN monitors : DispatchEvent(panicking)
    \/ emit("EventHandled", 1, 1)
    \/ MonitorRegistry_cancel
    \/ dispatcher_cancelled

SpecMon == Init /\ [][NextMon]_vars

\* the dispatcher takes the observation at the head of its channel
Dispatching ==
    /\ monChan # << >>
    /\ monChan' = Tail(monChan)
    /\ lastCmd'.cmd = "DispatchEvent"

\* C23: while the dispatcher runs, so after every command it has processed
\* and after every removal of a panicked monitor, is_active is true exactly
\* when some registered monitor is not paused
C23_ActivityFlag ==
    dispatcher = "run"
        => (is_active <=> \E id \in DOMAIN monitors : ~monitors[id].paused)

\* a monitor is registered, every monitor is paused by PauseOne and the
\* flag is down
C23_Witness ==
    /\ lastCmd.cmd = "PauseOne"
    /\ Cardinality(DOMAIN monitors) = MaxMonitors
    /\ \A id \in DOMAIN monitors : monitors[id].paused
    /\ ~is_active

\* C24: when monitors panic in the callback of an observation, exactly they
\* leave the registry, every other unpaused monitor has received this
\* observation, and the dispatcher goes on running
C24_ObserverIsolation ==
    [][Dispatching /\ is_active
         => /\ DOMAIN monitors' = DOMAIN monitors \ lastCmd'.panicked
            /\ \A k \in DOMAIN monitors' :
                  ~monitors[k].paused
                      => monitors'[k].calls
                           = Append(monitors[k].calls, Head(monChan).seq)
            /\ dispatcher' = "run"]_vars

\* one monitor has panicked on an observation that another one received,
\* and the survivor has received a later observation too
C24_Witness ==
    /\ dispatcher = "run"
    /\ lastCmd.cmd = "DispatchEvent"
    /\ \E k \in DOMAIN monitors :
          /\ Len(monitors[k].calls) >= 2
          /\ monitors[k].calls[Len(monitors[k].calls)] = lastCmd.seq
          /\ last_id > Cardinality(DOMAIN monitors)
          /\ monitors[k].faulty = FALSE
    /\ \E j \in 0..(last_id - 1) : j \notin DOMAIN monitors

\* C25: a paused monitor gets no callback and stays registered; pausing or
\* resuming one monitor changes its paused flag only, replays nothing and
\* leaves the others alone; an unknown id changes nothing; an unpaused
\* monitor gets every observation dispatched, whatever its history
C25_PauseResume ==
    /\ [][Dispatching
            => \A k \in DOMAIN monitors :
                  monitors[k].paused
                      => k \in DOMAIN monitors' /\ monitors'[k] = monitors[k]]_vars
    /\ [][(Dispatching /\ is_active)
            => \A k \in DOMAIN monitors' :
                  ~monitors[k].paused
                      => monitors'[k].calls
                           = Append(monitors[k].calls, Head(monChan).seq)]_vars
    /\ [][lastCmd'.cmd \in {"PauseOne", "ResumeOne"}
            => LET id == lastCmd'.id
               IN  /\ DOMAIN monitors' = DOMAIN monitors
                   /\ \A k \in DOMAIN monitors \ {id} :
                         monitors'[k] = monitors[k]
                   /\ id \notin DOMAIN monitors
                         => monitors' = monitors /\ is_active' = is_active
                   /\ id \in DOMAIN monitors
                         => monitors'[id]
                              = [monitors[id] EXCEPT
                                   !.paused = (lastCmd'.cmd = "PauseOne")]]_vars

\* a monitor that was paused during the second of three observations holds
\* the first and the third, next to one that holds all three
C25_Witness ==
    \E k, j \in DOMAIN monitors :
        /\ monitors[k].calls = << 1, 3 >>
        /\ monitors[j].calls = << 1, 2, 3 >>

\* ------------------------------------------------------- monitor id reuse
\* the handle a client removes: the one the last AddMonitor returned
Newest == {(last_id + 2 ^ MonitorIdBits - 1) % (2 ^ MonitorIdBits)}

NextIds ==
    \/ /\ Cardinality(DOMAIN monitors) < MaxMonitors
       /\ AddMonitor(FALSE)
    \/ \E id \in Newest \cap DOMAIN monitors : RemoveMonitor(id)

SpecIds == Init /\ [][NextIds]_vars

\* C26: the id an AddMonitor uses is the id of no registered monitor, so
\* the insertion adds an entry and replaces none, also once last_id has
\* gone round its 8 bits
C26_UniqueIds ==
    [][last_id' # last_id
         => /\ last_id \notin DOMAIN monitors
            /\ Cardinality(DOMAIN monitors')
                 = Cardinality(DOMAIN monitors) + 1]_vars

\* ---------------------------------------------------- observation gating
\* the broker under Supervisor::send with Telemetry subscribers, and the
\* dispatcher with monitors that are added, paused and resumed
NextObs ==
    \/ ~started /\ register_actor(NameSeq[nextPtr], Topics({"Telemetry"}))
    \/ start
    \/ \E ev \in {"Start", "BytesSent"} : started /\ Supervisor_send(ev)
    \/ broker_lock
    \/ broker_recv
    \/ broker_send_event
    \/ /\ last_id < MaxAdds
       /\ Cardinality(DOMAIN monitors) < MaxMonitors
       /\ AddMonitor(FALSE)
    \/ PauseAll
    \/ ResumeAll
    \/ DispatchEvent({})

SpecObs == Init /\ [][NextObs]_vars

\* some subscriber record holds the topic of envelope e
Subscribed(e) ==
    \E s \in Range(subscribers) : contains(s.topics, from_event(e.event))

\* C30: send_event hands nothing to the monitoring sink for an envelope
\* whose topic no subscriber holds; nothing is handed to the sink in a step
\* that starts with is_active false; the dispatcher calls no monitor for an
\* observation it takes while no registered monitor is unpaused
C30_ObservationGating ==
    /\ [][(Dispatch /\ ~Subscribed(Head(batch)))
            => obsCount' = obsCount /\ monChan' = monChan]_vars
    /\ [][~is_active => obsCount' = obsCount /\ Len(monChan') <= Len(monChan)]_vars
    /\ [][(Dispatching /\ \A id \in DOMAIN monitors : monitors[id].paused)
            => monitors' = monitors]_vars

\* an envelope without subscriber was routed, one with a subscriber was
\* routed while nothing was recorded, and the dispatcher has taken an
\* observation while its monitors were paused
C30_Witness ==
    /\ subscribers # << >>
    /\ \E e \in accepted : e.event = "Start" /\ e.id \in routed
    /\ Cardinality({e \in accepted : e.event = "BytesSent" /\ e.id \in routed})
         > obsCount
    /\ lastCmd.cmd = "DispatchEvent"
    /\ DOMAIN monitors # {}
    /\ \A id \in DOMAIN monitors :
          monitors[id].paused /\ lastCmd.seq \notin Range(monitors[id].calls)

\* ------------------------------------------------------ event chain queries
\* recorded entries with any ids, correlation ids and two labels, and the
\* chains built from them
NextChain ==
    \/ \E id \in ChainIds, correlation \in {0} \cup ChainIds,
          label \in {"Start", "Process"} :
          collect(EventEntry_new(id, correlation, label, alpha, beta))
    \/ \E root_id \in ChainIds :
          \E ord \in Orders(DOMAIN event_correlations(records)) :
              Harness_chain(root_id, ord)

SpecChain == Init /\ [][NextChain]_vars

\* the label of the k-th event of a recorded scenario
FlowLabel(k) ==
    IF k = 1 THEN "Start" ELSE IF k = 2 THEN "Process" ELSE "Complete"

\* scenarios in which every recorded entry is a new event that some actor
\* sends to some actor, correlated to no event or to an earlier one
NextFlow ==
    \/ \E correlation \in 0..Len(records), sender \in FlowActors,
          receiver \in FlowActors :
          collect(EventEntry_new(Len(records) + 1, correlation,
                                 FlowLabel(Len(records) + 1), sender,
                                 receiver))
    \/ \E root_id \in ChainIds :
          \E ord \in Orders(DOMAIN event_correlations(records)) :
              Harness_chain(root_id, ord)

SpecFlow == Init /\ [][NextFlow]_vars

\* the records of scenario S5
S5 ==
    << EventEntry_new(1, 0, "Start", alpha, beta),
       EventEntry_new(2, 1, "Process", beta, gamma),
       EventEntry_new(3, 2, "Complete", gamma, alpha) >>

\* C27: for the chain of scenario S5 built from its root,
\* actors().exactly([alpha, beta, gamma, alpha]) is true
C27_ScenarioS5 ==
    (chain.records = S5 /\ chain.root_id = 1)
        => exactly(chain, << alpha, beta, gamma, alpha >>)

\* the ids reachable from the ids of S by correlation edges of the records
RECURSIVE Reachable(_, _)
Reachable(recs, S) ==
    LET T == S \cup {recs[k].id : k \in {j \in 1..Len(recs) :
                                            recs[j].correlation \in S}}
    IN  IF T = S THEN S ELSE Reachable(recs, T)

\* C28: the id set of a chain is the set reachable from its root by
\* correlation edges: every member but the root has its correlation id in
\* the chain, and every recorded event whose correlation id is in the chain
\* is in the chain
C28_CorrelationClosure ==
    chain # NoChain
        => /\ chain.chain_ids = Reachable(chain.records, {chain.root_id})
           /\ \A k \in 1..Len(chain.records) :
                LET e == chain.records[k]
                IN  /\ (e.id \in chain.chain_ids /\ e.id # chain.root_id)
                          => e.correlation \in chain.chain_ids
                    /\ e.correlation \in chain.chain_ids
                          => e.id \in chain.chain_ids

\* a chain built over records whose correlation ids form a cycle through
\* the root, with a third event hanging off the cycle
C28_Witness ==
    /\ chain.root_id = 1
    /\ chain.chain_ids = {1, 2, 3}
    /\ \E i, j \in 1..Len(chain.records) :
          /\ chain.records[i].id = 1 /\ chain.records[i].correlation = 2
          /\ chain.records[j].id = 2 /\ chain.records[j].correlation = 1

\* the matchers a test passes to the branch queries
Matchers ==
    {EventMatcher_label(l) : l \in Labels} \cup
    {EventMatcher_id(id) : id \in ChainIds}

\* C29: for every chain and matcher, diverges_after(m) is the same as
\* branches_after(m) > 1
C29_BranchQueriesAgree ==
    chain # NoChain
        => \A m \in Matchers :
              diverges_after(chain, m) = (branches_after(chain, m) > 1)

\* ------------------------------------------------- observations of delivery
\* the overflow policies under a monitor added before start: the supervisor
\* is the producer, every actor subscribes to all topics, handlers succeed
NextOvf ==
    \/ ~started /\ last_id = 0 /\ AddMonitor(FALSE)
    \/ ~started /\ register_actor(NameSeq[nextPtr], All)
    \/ start
    \/ \E ev \in Events : started /\ Supervisor_send(ev)
    \/ broker_lock
    \/ broker_recv
    \/ broker_send_event
    \/ \E p \in Ptrs : broker_blocked_send(p)
    \/ \E i \in Ptrs : on_start(i, TRUE)
    \/ \E i \in Ptrs : ctl_recv(i)
    \/ \E i \in Ptrs : handle_envelope_return(i, TRUE)
    \/ DispatchEvent({})

SpecOvf == Init /\ [][NextOvf]_vars

\* the subscribers send_event attempts delivery of envelope e on
Attempted(e) == {p \in Ptrs : Offered(p, e)}

\* the observations a step has put into the dispatcher's channel
Emitted == SubSeq(monChan', Len(monChan) + 1, Len(monChan'))

\* send_event runs on the head of the batch while monitoring is active and
\* the dispatcher's channel has room for an observation per attempt
Observed ==
    /\ Dispatch
    /\ is_active
    /\ Len(monChan) + Cardinality(Attempted(Head(batch)))
         <= monitoring_channel_size

\* the observations of the given kind among those a step emitted for
\* envelope e and receiver p
EmittedFor(kind, e, p) ==
    {k \in 1..Len(Emitted) : /\ Emitted[k].kind = kind
                             /\ Emitted[k].env = e.id
                             /\ Emitted[k].actor = p}

\* C31: while monitoring is active, send_event emits exactly one
\* EventDispatched for every subscriber it attempts delivery on, whether the
\* try_send succeeds or meets a full mailbox
C31_DispatchedPerAttempt ==
    [][Observed
         => \A p \in Attempted(Head(batch)) :
               Cardinality(EmittedFor("EventDispatched", Head(batch), p)) = 1
       ]_vars

\* C32: while monitoring is active, a try_send that meets a full mailbox
\* emits exactly one Overflow with the receiver and the topic's policy and a
\* try_send that succeeds emits none; a subscriber that overflowed under Fail
\* is removed before the next envelope is sent
C32_OverflowObservations ==
    /\ [][Observed
            => \A p \in Attempted(Head(batch)) :
                  LET e == Head(batch)
                      o == EmittedFor("Overflow", e, p)
                  IN  /\ Cardinality(o) = (IF Full(p) THEN 1 ELSE 0)
                      /\ \A k \in o :
                            Emitted[k].policy
                              = overflow_policy(from_event(e.event))]_vars
    /\ [][Dispatch
            => \A p \in Attempted(Head(batch)) :
                  (Full(p) /\ overflow_policy(from_event(Head(batch).event))
                                = "Fail")
                      => \/ brk' = "blocked" /\ p \in to_be_closed'
                         \/ RecordsOf(p) \cap Range(subscribers') = {}]_vars
    /\ [][(brk = "blocked" /\ brk' # "blocked")
            => \A p \in to_be_closed :
                  RecordsOf(p) \cap Range(subscribers') = {}]_vars

\* the dispatcher's channel holds an Overflow with policy Fail for an actor
\* whose subscriber record is gone
C32_Witness ==
    \E k \in 1..Len(monChan) :
        /\ monChan[k].kind = "Overflow"
        /\ monChan[k].policy = "Fail"
        /\ \A s \in Range(subscribers) : s.actor_id.ptr # monChan[k].actor

\* ------------------------------------------- stopped actors and maintenance
\* actors that stop themselves while the supervisor sends events of the
\* Block topic and the broker's maintenance tick fires
NextSweep ==
    \/ ~started /\ register_actor(NameSeq[nextPtr], All)
    \/ start
    \/ started /\ Supervisor_send("Data")
    \/ broker_lock
    \/ broker_recv
    \/ broker_send_event
    \/ \E p \in Ptrs : broker_blocked_send(p)
    \/ cleanup
    \/ \E i \in Ptrs : on_start(i, TRUE)
    \/ \E i \in Ptrs : Context_stop(i)
    \/ \E i \in Ptrs : loop_exit(i)
    \/ \E i \in Ptrs : ctl_recv(i)
    \/ \E i \in Ptrs : handle_envelope_result(i, TRUE, FALSE)
    \/ \E i \in Ptrs : on_shutdown(i, TRUE)

SpecSweep == Init /\ [][NextSweep]_vars

\* the subscriber records a step removes
Removed == Range(subscribers) \ Range(subscribers')

\* C33: nothing is enqueued for a controller that has terminated; a step of
\* the broker that sends, at once or deferred, keeps the broker running and
\* removes only the subscribers the Fail policy marked; a maintenance tick
\* leaves exactly the subscribers whose mailbox is open, in their order
C33_StoppedActors ==
    /\ [][\A p \in Ptrs : ctl[p] = "done" => mailbox'[p] = mailbox[p]]_vars
    /\ [][Dispatch
            => /\ brk' \in {"select", "dispatch", "blocked"}
               /\ \A s \in Removed :
                     LET p == s.actor_id.ptr
                     IN  /\ Offered(p, Head(batch))
                         /\ Full(p)
                         /\ overflow_policy(from_event(Head(batch).event))
                              = "Fail"]_vars
    /\ [][brk = "blocked"
            => /\ brk' \in {"select", "dispatch", "blocked"}
               /\ \A s \in Removed : s.actor_id.ptr \in to_be_closed]_vars
    /\ [][(brk = "select" /\ subscribers' # subscribers)
            => LET open(s) == ~is_closed(s)
               IN  subscribers' = SelectSeq(subscribers, open)]_vars

\* the broker is back in its select after a deferred send met the closed
\* mailbox of a stopped actor, whose record a maintenance tick has removed
\* while the record of a running actor is kept
C33_Witness ==
    /\ brk = "select"
    /\ \E p, q \in Ptrs :
          /\ ctl[p] = "done"
          /\ Len(mailbox[p]) = channel_size
          /\ \E e \in routed : \A k \in 1..Len(mailbox[p]) : mailbox[p][k].id # e
          /\ RecordsOf(p) = {}
          /\ ctl[q] \notin {"done", "none"}
          /\ RecordsOf(q) # {}

\* ----------------------------------------------------- broker final drain
\* C34: when Broker::run returns after its token was cancelled, no envelope
\* that the supervisor queued before the cancellation is left in the inbound
\* channel (the supervisor is the only sender and sends nothing once stop()
\* has begun)
C34_FinalDrain ==
    [][(brk = "shutdown" /\ brk' = "done") => inbound = << >>]_vars

\* ----------------------------------------------------------- introspection
\* enum ActorStatus
ActorStatus == {"Registered", "Idle", "Processing", "Stopped"}

\* SharedState::register_actor: the entry starts as Registered
SharedState_register_actor(st, id) == [st EXCEPT ![id] = "Registered"]

\* SharedState::set_status: only an existing entry is updated
set_status(st, id, status) ==
    IF st[id] # "absent" THEN [st EXCEPT ![id] = status] ELSE st

\* impl Monitor for StateTracker: the callback the dispatcher makes for a
\* MonitoringEvent
StateTracker(st, event) ==
    CASE event.kind = "EventDelivered" -> set_status(st, event.actor, "Processing")
      [] event.kind = "EventHandled" -> set_status(st, event.actor, "Idle")
      [] event.kind = "ActorStopped" -> set_status(st, event.actor, "Stopped")
      [] OTHER -> st

\* Supervisor::register_actor stores the actor in the introspection table
introspection_register(i) ==
    /\ ~started
    /\ shared_state[i] = "absent"
    /\ shared_state' = SharedState_register_actor(shared_state, i)
    /\ UNCHANGED << supVars, brokerVars, mailbox, inbound, completed, nextId,
                    accepted, ctx, ctl, cnt, pending, handled, tick_limit,
                    alive, step_ft, hist, monVars, records, chain, running,
                    harness, actor_monitor, callbacks, collector,
                    test_events >>

\* a controller hands the observation `kind' about its actor to the sink and
\* goes on as `next': EventDelivered before the handler runs, EventHandled
\* when it has returned, ActorStopped when the controller ends
observe(i, kind, from, next) ==
    /\ started
    /\ running[i] = from
    /\ obsCount < MaxObs
    /\ running' = [running EXCEPT ![i] = next]
    /\ obsCount' = obsCount + 1
    /\ monChan' = MonitoringSink_send(monChan,
                      MonitoringEvent(kind, 0, i, "None", obsCount + 1))
    /\ UNCHANGED << appVars_but_tools, monitors, last_id, is_active,
                    dispatcher, lastCmd, shared_state, harness,
                    actor_monitor, callbacks, collector, test_events >>

\* MonitorDispatcher::handle_event calling the StateTracker
StateTracker_notify ==
    /\ dispatcher = "run"
    /\ monChan # << >>
    /\ shared_state' = StateTracker(shared_state, Head(monChan))
    /\ monChan' = Tail(monChan)
    /\ UNCHANGED << appVars_but_tools, monitors, last_id, is_active,
                    dispatcher, lastCmd, obsCount, running, harness,
                    actor_monitor, callbacks, collector, test_events >>

\* actors registered or not with the introspection table, a started
\* supervisor, controllers that handle events and stop
NextIntro ==
    \/ \E i \in Ptrs : introspection_register(i)
    \/ start
    \/ \E i \in Ptrs : observe(i, "EventDelivered", "idle", "handler")
    \/ \E i \in Ptrs : observe(i, "EventHandled", "handler", "idle")
    \/ \E i \in Ptrs : observe(i, "ActorStopped", "idle", "stopped")
    \/ StateTracker_notify

SpecIntro == Init /\ [][NextIntro]_vars

\* the status changes of the actor's documented life
StatusOrder ==
    {<<"Registered", "Idle">>, <<"Idle", "Processing">>,
     <<"Processing", "Idle">>, <<"Idle", "Stopped">>,
     <<"Processing", "Stopped">>, <<"Registered", "Stopped">>}

\* C35: a recorded status is Registered only before the supervisor starts
\* and Processing only while a handler of the actor runs; once started, an
\* actor with an entry and no handler running is Idle; the status changes
\* along Registered, Idle, Processing, Idle, ..., Stopped and never leaves
\* Stopped; an update for an id without an entry changes nothing
C35_StatusMachine ==
    /\ [](\A p \in Ptrs :
            /\ shared_state[p] = "Registered" => ~started
            /\ shared_state[p] = "Processing" => running[p] = "handler"
            /\ (started /\ shared_state[p] # "absent" /\ running[p] = "idle")
                  => shared_state[p] = "Idle")
    /\ [][\A p \in Ptrs :
            /\ shared_state'[p] # shared_state[p]
                  => \/ shared_state[p] = "absent" /\ ~started
                     \/ <<shared_state[p], shared_state'[p]>> \in StatusOrder
            /\ (started /\ shared_state[p] = "absent")
                  => shared_state'[p] = "absent"]_vars

\* ------------------------------------------------- order of a chain's events
\* scenarios of up to MaxTree events, each delivered once and correlated to
\* no event or to an earlier one, and a chain built from any of them
NextTree ==
    \/ \E correlation \in 0..Len(records) :
          collect_upto(EventEntry_new(Len(records) + 1, correlation, "Start",
                                      alpha, beta), MaxTree)
    \/ \E root_id \in 1..MaxTree :
          \E ord \in Orders(DOMAIN event_correlations(records)) :
              Harness_chain(root_id, ord)

SpecTree == Init /\ [][NextTree]_vars

\* the number of correlation links from event id up to the root of chain c
RECURSIVE Depth(_, _)
Depth(c, id) ==
    IF id = c.root_id THEN 0
    ELSE 1 + Depth(c, event_correlations(c.records)[id])

\* C36: ordered_entries lists the events of a chain breadth first: an event
\* is never listed after an event that lies deeper below the root
C36_BreadthFirst ==
    chain # NoChain
       => LET es == ordered_entries(chain)
          IN  \A i, j \in 1..Len(es) :
                 i < j => Depth(chain, es[i].id) <= Depth(chain, es[j].id)

\* -------------------------------------------------------- recording window
\* the MonitorId Harness::new gets for its collector
collector_id == 0

\* the entries the collector has sent on the harness's unbounded channel:
\* one per callback the dispatcher made on it
sent_entries ==
    IF collector_id \in DOMAIN monitors THEN monitors[collector_id].calls
    ELSE << >>

\* Harness::start_recording: monitor_handle.resume(), handled by the
\* dispatcher as ResumeOne
Harness_start_recording ==
    /\ collector_id \in DOMAIN monitors
    /\ dispatcher = "run"
    /\ harness.state \in {"new", "stopped"}
    /\ LET ms == set_monitor_paused(monitors, collector_id, FALSE)
       IN  /\ monitors' = ms
           /\ is_active' = update_is_active(ms)
    /\ lastCmd' = [cmd |-> "ResumeOne", id |-> collector_id, seq |-> 0,
                   panicked |-> {}]
    /\ harness' = [harness EXCEPT !.state = "recording", !.startAt = obsCount]
    /\ UNCHANGED << appVars_but_tools, last_id, dispatcher, obsCount, monChan,
                    shared_state, running, actor_monitor, callbacks,
                    collector, test_events >>

\* Harness::settle_with_timeout, the Ok(Some(entry)) arm: an entry of the
\* channel is pushed to the snapshot
Harness_settle_recv ==
    /\ harness.state = "recording"
    /\ harness.pulled < Len(sent_entries)
    /\ harness' = [harness EXCEPT
                     !.snapshot = Append(@, sent_entries[harness.pulled + 1]),
                     !.pulled = @ + 1]
    /\ UNCHANGED << appVars_but_tools, monVars, shared_state, running,
                    actor_monitor, callbacks, collector, test_events >>

\* Harness::stop_recording once settle has returned (quiet window or
\* deadline): monitor_handle.pause(), handled by the dispatcher as PauseOne,
\* then the snapshot is taken as the records
Harness_stop_recording ==
    /\ harness.state = "recording"
    /\ dispatcher = "run"
    /\ LET ms == set_monitor_paused(monitors, collector_id, TRUE)
       IN  /\ monitors' = ms
           /\ is_active' = update_is_active(ms)
    /\ lastCmd' = [cmd |-> "PauseOne", id |-> collector_id, seq |-> 0,
                   panicked |-> {}]
    /\ records' = harness.snapshot
    /\ harness' = [harness EXCEPT !.state = "stopped", !.snapshot = << >>]
    /\ UNCHANGED << supVars, brokerVars, mailbox, inbound, completed, nextId,
                    accepted, ctx, ctl, cnt, pending, handled, tick_limit,
                    alive, step_ft, hist, chain, last_id, dispatcher,
                    obsCount, monChan, shared_state, running, actor_monitor,
                    callbacks, collector, test_events >>

\* a harness is created, deliveries are observed, and the test starts and
\* stops recording
NextHarness ==
    \/ last_id = 0 /\ AddMonitor(FALSE)
    \/ emit("EventHandled", 1, 1)
    \/ DispatchEvent({})
    \/ Harness_start_recording
    \/ Harness_settle_recv
    \/ Harness_stop_recording

SpecHarness == Init /\ [][NextHarness]_vars

\* C37: after stop_recording the records hold only deliveries observed
\* since the preceding start_recording, none observed before the first one
C37_RecordingWindow ==
    harness.state = "stopped"
       => \A k \in 1..Len(records) : records[k] > harness.startAt

\* ---------------------------------------------------- waits under Block
\* one actor subscribed to the Block topic whose handler sends events of
\* that topic, while the supervisor sends such events too
NextBlock ==
    \/ ~started /\ nextPtr = 1 /\ register_actor("a", All)
    \/ start
    \/ started /\ Supervisor_send_upto("Data", MaxSent)
    \/ broker_lock
    \/ broker_recv
    \/ broker_send_event
    \/ broker_blocked_send(1)
    \/ on_start(1, TRUE)
    \/ ctl_recv(1)
    \/ ctl[1] = "handling" /\ Context_send_upto(1, "Data", MaxSent)
    \/ send_envelope(1)
    \/ handle_envelope_return(1, TRUE)

SpecBlock == Init /\ [][NextBlock]_vars

\* the broker's deferred send waits for room in the mailbox of actor p
BrokerWaits(p) ==
    /\ brk = "blocked"
    /\ p \in blocked
    /\ ctl[p] # "done"
    /\ Len(mailbox[p]) = channel_size

\* the handler of actor p waits in Context::send for room in the inbound
\* channel
HandlerWaits(p) ==
    /\ ctl[p] = "handling"
    /\ pending[p] # NoEnv
    /\ brk # "done"
    /\ Len(inbound) = channel_size

\* C38: the broker never waits for room in the mailbox of an actor whose
\* handler waits in ctx.send for room in the inbound channel
C38_NoCircularWait ==
    \A p \in Ptrs : ~(BrokerWaits(p) /\ HandlerWaits(p))

\* ------------------------------------------------------------ ActorMonitor
\* actor ids the callbacks name: two of them carry the same name in
\* different allocations, which ActorId's PartialEq tells apart
MonitoredIds ==
    {ActorId_new(1, "actor-1"), ActorId_new(2, "actor-2"),
     ActorId_new(3, "actor-1")}

\* on_actor_registered that leaves the stopped set alone
on_actor_registered_keep(m, actor_id) ==
    [m EXCEPT !.active = @ \cup {actor_id}]

\* Monitor::on_actor_registered for ActorMonitor
on_actor_registered(m, actor_id) ==
    [m EXCEPT !.active = @ \cup {actor_id}, !.stopped = @ \ {actor_id}]

\* Monitor::on_actor_stop for ActorMonitor
on_actor_stop(m, actor_id) ==
    [m EXCEPT !.active = @ \ {actor_id}, !.stopped = @ \cup {actor_id}]

\* Monitor::on_overflow for ActorMonitor: entry(receiver).or_insert(0) += 1
on_overflow(m, actor_id) ==
    LET counts == m.overflow_counts
        old == IF actor_id \in DOMAIN counts THEN counts[actor_id] ELSE 0
    IN  [m EXCEPT !.overflow_counts =
            [a \in DOMAIN counts \cup {actor_id} |->
                IF a = actor_id THEN old + 1 ELSE counts[a]]]

\* ActorMonitor::actor_status
actor_status(m, actor) ==
    IF actor \in DOMAIN m.overflow_counts
    THEN <<"Overflowing", m.overflow_counts[actor]>>
    ELSE IF actor \in m.active THEN <<"Alive">> ELSE <<"Stopped">>

\* the dispatcher makes the callback `kind' about actor_id on the monitor
ActorMonitor_callback(kind, actor_id) ==
    /\ Len(callbacks) < MaxCalls
    /\ callbacks' = Append(callbacks, [kind |-> kind, actor |-> actor_id])
    /\ actor_monitor' =
          CASE kind = "registered" -> on_actor_registered(actor_monitor, actor_id)
            [] kind = "stop" -> on_actor_stop(actor_monitor, actor_id)
            [] kind = "overflow" -> on_overflow(actor_monitor, actor_id)
    /\ UNCHANGED << appVars_but_tools, monVars, shared_state, running,
                    harness, collector, test_events >>

\* any sequence of lifecycle and overflow callbacks
NextActorMon ==
    \/ \E a \in MonitoredIds : ActorMonitor_callback("registered", a)
    \/ \E a \in MonitoredIds : ActorMonitor_callback("stop", a)
    \/ \E a \in MonitoredIds : ActorMonitor_callback("overflow", a)

SpecActorMon == Init /\ [][NextActorMon]_vars

\* the callbacks of the kinds K made so far that name actor a
CallsNaming(a, K) ==
    LET named(c) == c.actor = a /\ c.kind \in K
    IN  SelectSeq(callbacks, named)

\* C39: no actor is in the active and in the stopped set; the status of an
\* actor named by n >= 1 overflow callbacks is Overflowing(n) whatever its
\* registration; of any other actor it is Alive when its latest lifecycle
\* callback was a registration and Stopped otherwise
C39_ActorMonitorState ==
    /\ actor_monitor.active \cap actor_monitor.stopped = {}
    /\ \A a \in MonitoredIds :
          LET n == Len(CallsNaming(a, {"overflow"}))
              life == CallsNaming(a, {"registered", "stop"})
          IN  actor_status(actor_monitor, a) =
                 IF n >= 1 THEN <<"Overflowing", n>>
                 ELSE IF life # << >> /\ life[Len(life)].kind = "registered"
                 THEN <<"Alive">> ELSE <<"Stopped">>

\* an actor that overflowed twice and stopped, next to a registered one,
\* and an actor that was stopped and registered again
C39_Witness ==
    \/ \E a, b \in MonitoredIds :
          /\ actor_status(actor_monitor, a) = <<"Overflowing", 2>>
          /\ a \in actor_monitor.stopped
          /\ actor_status(actor_monitor, b) = <<"Alive">>
    \/ \E a \in MonitoredIds :
          /\ Len(CallsNaming(a, {"registered", "stop"})) >= 3
          /\ actor_status(actor_monitor, a) = <<"Alive">>

\* ---------------------------------------------------------- EventCollector
\* enum TestEvent
TestEventKinds ==
    {"Event", "Flush", "Exit", "Reset", "StartRecording", "StopRecording",
     "Idle"}

\* the test sends a TestEvent to the collector; id numbers the TestEvents
TestEvent_send(kind) ==
    /\ Len(collector.log) + Len(test_events) < MaxTestEvents
    /\ test_events' = Append(test_events,
                             [kind |-> kind,
                              id |-> Len(collector.log) + Len(test_events) + 1])
    /\ UNCHANGED << appVars_but_tools, monVars, shared_state, running,
                    harness, actor_monitor, callbacks, collector >>

\* the match of EventCollector::run on the TestEvent ev
EventCollector_match(c, ev) ==
    CASE ev.kind = "Event" /\ c.recording ->
            [c EXCEPT !.is_idle = FALSE, !.events = Append(@, ev.id)]
      [] ev.kind = "Flush" ->
            IF c.is_idle THEN [c EXCEPT !.answered = @ \cup {ev.id}]
            ELSE [c EXCEPT !.responder = ev.id,
                           !.lost = IF c.responder # 0
                                    THEN @ \cup {c.responder} ELSE @]
      [] ev.kind = "Exit" -> [c EXCEPT !.is_alive = FALSE]
      [] ev.kind = "Reset" -> [c EXCEPT !.events = << >>]
      [] ev.kind = "StartRecording" -> [c EXCEPT !.recording = TRUE]
      [] ev.kind = "StopRecording" -> [c EXCEPT !.should_stop = TRUE]
      [] ev.kind = "Idle" ->
            [c EXCEPT !.is_idle = TRUE, !.responder = 0,
                      !.answered = IF c.responder # 0
                                   THEN @ \cup {c.responder} ELSE @]
      [] OTHER -> c

\* the position after the inner loop: the deferred stop, the next recv, or
\* the end of run
after_batch(c) ==
    IF c.should_stop /\ c.recording THEN [c EXCEPT !.pc = "yield"]
    ELSE [c EXCEPT !.pc = IF c.is_alive THEN "recv" ELSE "done",
                   !.should_stop = FALSE]

\* EventCollector::run: recv of the outer loop or a successful try_recv of
\* the inner loop yields a TestEvent, which is matched
EventCollector_recv ==
    /\ collector.pc \in {"recv", "batch"}
    /\ collector.is_alive
    /\ test_events # << >>
    /\ collector' = [EventCollector_match(collector, Head(test_events))
                        EXCEPT !.pc = "batch",
                               !.log = Append(@, Head(test_events).kind)]
    /\ test_events' = Tail(test_events)
    /\ UNCHANGED << appVars_but_tools, monVars, shared_state, running,
                    harness, actor_monitor, callbacks >>

\* EventCollector::run: the inner loop ends, because try_recv finds nothing
\* or because Exit was matched and the TestEvent try_recv took is dropped
EventCollector_break ==
    /\ collector.pc = "batch"
    /\ test_events = << >> \/ ~collector.is_alive
    /\ IF test_events = << >>
       THEN /\ collector' = after_batch(collector)
            /\ UNCHANGED test_events
       ELSE /\ collector' = after_batch([collector EXCEPT
                                !.log = Append(@, "dropped")])
            /\ test_events' = Tail(test_events)
    /\ UNCHANGED << appVars_but_tools, monVars, shared_state, running,
                    harness, actor_monitor, callbacks >>

\* EventCollector::run: yield_now has returned and recording is cleared
EventCollector_stop ==
    /\ collector.pc = "yield"
    /\ collector' = [collector EXCEPT
                        !.recording = FALSE, !.should_stop = FALSE,
                        !.pc = IF collector.is_alive THEN "recv" ELSE "done"]
    /\ UNCHANGED << appVars_but_tools, monVars, shared_state, running,
                    harness, actor_monitor, callbacks, test_events >>

\* a test that sends any TestEvents while the collector runs
NextCollector ==
    \/ \E kind \in TestEventKinds : TestEvent_send(kind)
    \/ EventCollector_recv
    \/ EventCollector_break
    \/ EventCollector_stop

SpecCollector == Init /\ [][NextCollector]_vars

\* the collector takes a TestEvent of the kind in this step and matches it
Matching(kind) ==
    /\ collector.is_alive
    /\ collector.pc \in {"recv", "batch"}
    /\ test_events # << >>
    /\ Head(test_events).kind = kind
    /\ test_events' = Tail(test_events)

\* the StartRecording and StopRecording received so far
RecordingCommands ==
    LET rec(k) == k \in {"StartRecording", "StopRecording"}
    IN  SelectSeq(collector.log, rec)

\* C40: an Event is appended iff recording is on when it is matched; when
\* everything sent has been processed the recording state is the effect of
\* the last StartRecording or StopRecording; a Flush matched when idle is
\* answered at once, a pending Flush is answered at the next Idle, and no
\* Flush is dropped unanswered
C40_CommandLoop ==
    /\ [][Matching("Event")
            => collector'.events =
                  IF collector.recording
                  THEN Append(collector.events, Head(test_events).id)
                  ELSE collector.events]_vars
    /\ []((collector.pc = "recv" /\ test_events = << >>)
            => collector.recording
                  = (/\ RecordingCommands # << >>
                     /\ RecordingCommands[Len(RecordingCommands)]
                          = "StartRecording"))
    /\ [][(Matching("Flush") /\ collector.is_idle)
            => Head(test_events).id \in collector'.answered]_vars
    /\ [][(Matching("Idle") /\ collector.responder # 0)
            => collector.responder \in collector'.answered]_vars
    /\ [](collector.lost = {})

====
